---- MODULE Spec2Model ----
(***************************************************************************)
(* Market data acquisition, caching and analytics of the LINE stock bot:   *)
(* the retrying fetchers, the analyzers' time-keyed caches and the quote   *)
(* entry points, as state machines translated from the Python sources.     *)
(* Time is the integer number of seconds on the wall clock.                *)
(***************************************************************************)
EXTENDS Integers, Sequences, FiniteSets, TLC

VARIABLES
    now,                \* wall clock (time.time() / datetime.now()), seconds
    pc,                 \* per caller: position inside the running operation
    ctx,                \* per caller: the operation that was called
    kind,               \* per caller: which class's fetcher is running
    arg,                \* per caller: the code passed by the caller
    key,                \* per caller: the local etf_code / stock_code / url
    attempt,            \* per caller: loop variable of the retry loop
    result,             \* per caller: what the operation returned or raised
    last_request_time,  \* <<kind, key>> -> time of the last recorded request
    issued,             \* history, per caller: request invocations of this call
    after_success,      \* history, per caller: invocations made after a success
    seen,               \* history, per caller: summary of this call's outcomes
    spaced,             \* history, <<kind, key>> -> every two consecutive
                        \*   invocations so far were request_interval apart
    last_issue,         \* history, <<kind, key>> -> the last invocation's time
    calls,              \* history: operations called so far
    cache,              \* ETFAnalyzer.cache: key -> {'data', 'timestamp'}
    etf_db,             \* the etf_info collection, in insertion order
    last_ok,            \* history, code -> the last record get_etf_info returned
    obs,                \* history, per caller: what this call has touched
    stock_cache,        \* StockAnalyzer.cache: key -> {'data', 'timestamp'}
    svc_cache,          \* lru_cache of StockService.get_stock_info: code -> value
    fn,                 \* the computation applied to input, "none" before it
    input,              \* the argument handed to the computation
    output,             \* what the computation returned
    holdings_db,        \* the etf_holdings collection: etf_code -> holdings
    price_alerts,       \* the price_alerts collection, in insertion order
    dividend_cache,     \* DividendAnalyzer.cache: key -> {'data', 'timestamp'}
    util_cache,         \* utils.cache.Cache._cache, in insertion order
    gemini_cache,       \* GeminiClient.cache, in insertion order
    instance            \* Database._instance and the object's attributes

\* the caller's frame
frame == <<pc, ctx, arg, key, attempt, result>>

\* the fetcher's object state and the history of its requests
fetcher == <<last_request_time, spaced, last_issue>>

\* the history of the running call
callHist == <<issued, after_success, seen, obs>>

\* ETFAnalyzer's cache and the database behind it
etfStore == <<cache, etf_db, last_ok>>

\* the state of the quote entry points
quoteStore == <<stock_cache, svc_cache>>

\* a computation on data already fetched: its argument and its result
calc == <<fn, input, output>>

\* what the fetchers and get_etf_info never touch, and what the quote entry
\* points never touch
rest == <<quoteStore, calc, holdings_db>>
notQuote == <<kind, fetcher, etfStore>>

\* the bot's own stores: the alerts, and the caches beside the analyzers'
bot == <<price_alerts, dividend_cache, util_cache, gemini_cache, instance>>

vars == <<now, calls, kind, frame, fetcher, callHist, etfStore, quoteStore, calc,
          holdings_db, bot>>

----------------------------------------------------------------------------
(* Bounds of the model *)

\* the clock stops advancing past this many seconds
MaxTime == 30

\* operations called in one behaviour
MaxCalls == 2

\* the clock of the cache scenarios stops past this many seconds, and moves
\* between calls in steps of LongStep
MaxEtfTime == 1830
LongStep == 900

Callers == {1, 2}

\* "no value": a key absent from a dict, a local not yet assigned
NoTime == -1

----------------------------------------------------------------------------
(* Codes are strings, modelled as sequences of characters *)

Digits == {"0", "1", "2", "3", "4", "5", "6", "7", "8", "9"}

\* str.isdigit(): non-empty and every character a digit
isdigit(s) == Len(s) > 0 /\ \A i \in 1..Len(s) : s[i] \in Digits

Code0050   == <<"0", "0", "5", "0">>
Code00692  == <<"0", "0", "6", "9", "2">>
Code006208 == <<"0", "0", "6", "2", "0", "8">>
Code2330   == <<"2", "3", "3", "0">>
CodeAbc    == <<"a", "b", "c">>
CodeEmpty  == <<>>

----------------------------------------------------------------------------
(* The retrying fetchers                                                   *)
(*   etf      ETFAnalyzer._get_with_retry                                  *)
(*   dividend DividendAnalyzer._get_with_retry                             *)
(*   stock    StockAnalyzer._get_with_retry                                *)
(*   twse     TWSEAPI._make_request                                        *)

Kinds == {"etf", "dividend", "stock", "twse"}

\* what one invocation of the request function can do:
\*   ok            returns a payload
\*   none          returns None
\*   empty         HTTP 200 with an empty JSON document
\*   bad_json      HTTP 200 whose body is no JSON
\*   rate_limited  raises, "Too Many Requests" in the message
\*   transient     raises a timeout / connection error
\*   permanent     raises a non-retryable error (HTTP 4xx, bad argument)
\* (_fetch_etf_info catches every exception: it returns a record or None)
FuncOutcomes(k, c) ==
    IF c = "get_etf_info" THEN {"ok", "none"}
    ELSE IF k = "twse"
    THEN {"ok", "empty", "bad_json", "rate_limited", "transient", "permanent"}
    ELSE {"ok", "none", "rate_limited", "transient", "permanent"}

max_retries(k) ==
    CASE k = "etf"      -> 3
      [] k = "dividend" -> 3
      [] k = "stock"    -> 2
      [] k = "twse"     -> 3

retry_delay(k) ==
    CASE k = "etf"      -> 5
      [] k = "dividend" -> 5
      [] k = "stock"    -> 5

request_interval(k) ==
    CASE k = "etf"      -> 5
      [] k = "dividend" -> 5
      [] OTHER          -> 0

RECURSIVE Pow2(_)
Pow2(n) == IF n = 0 THEN 1 ELSE 2 * Pow2(n - 1)

\* a loop that runs one round too many
RangeExhausted_OneMore(k, a) == a >= max_retries(k) + 1

\* `for attempt in range(max_retries)`: the loop is over
RangeExhausted(k, a) == a >= max_retries(k)

\* the wait before the request: the rest of request_interval since the
\* recorded last request of the key (etf and dividend only)
PreWait(k, ky, lrt, t) ==
    IF k \in {"etf", "dividend"} /\ <<k, ky>> \in DOMAIN lrt
          /\ t - lrt[<<k, ky>>] < request_interval(k)
    THEN request_interval(k) - (t - lrt[<<k, ky>>])
    ELSE 0

\* what the loop body does with the outcome of attempt a (0-based):
\*   "return"  return the payload       "return_none" return None
\*   "give_up" return {}                "raise"       let the exception out
\*   "retry"   sleep and go round the loop again
Disposition(k, a, o) ==
    CASE k \in {"etf", "dividend"} ->
            IF o = "ok" THEN "return"
            ELSE IF o = "rate_limited" THEN "retry"
            ELSE IF a = max_retries(k) - 1 THEN "give_up" ELSE "retry"
      [] k = "stock" ->
            IF o = "ok" THEN "return"
            ELSE IF o = "none" THEN "return_none"
            ELSE "retry"
      [] k = "twse" ->
            IF o = "ok" THEN "return"
            ELSE IF o = "empty" THEN "raise"
            ELSE IF a < max_retries(k) - 1 THEN "retry" ELSE "raise"

\* a back-off that does not grow with the attempts
BackoffWait_Flat(k, a, o) == IF k = "twse" THEN Pow2(a) ELSE retry_delay(k)

\* the sleep before the next attempt, after attempt a (0-based) failed with o
BackoffWait(k, a, o) ==
    CASE k \in {"etf", "dividend"} ->
            IF o = "rate_limited" THEN (a + 1) * retry_delay(k) ELSE retry_delay(k)
      [] k = "stock" -> retry_delay(k)
      [] k = "twse"  -> Pow2(a)

\* the recorded last request time after an attempt issued at time t
RecordRequest(k, ky, lrt, t, o) ==
    IF k \in {"etf", "dividend"} /\ o = "ok"
    THEN [x \in DOMAIN lrt \cup {<<k, ky>>} |->
              IF x = <<k, ky>> THEN t ELSE lrt[x]]
    ELSE lrt

\* an invocation at time t keeps the spacing after the one at time last
Spaced(k, last, t) == last = NoTime \/ t - last >= request_interval(k)

\* the summary of a call's outcomes after one more: "nothing" yet, "ok" once
\* an invocation succeeded, "permanent" while every one failed permanently,
\* "mixed" otherwise
Seen(s, o) ==
    IF s = "ok" \/ o = "ok" THEN "ok"
    ELSE IF o = "permanent" /\ s \in {"nothing", "permanent"} THEN "permanent"
    ELSE "mixed"

----------------------------------------------------------------------------
(* Records handed around: a payload or quote with the time it was fetched *)

NoRecord == [etf_code |-> <<>>, src |-> "none", timestamp |-> NoTime]

Record(code, src, t) == [etf_code |-> code, src |-> src, timestamp |-> t]

\* status: "pending" while running, then
\*   "ok" a payload, "none" None, "empty" {}, "error" an {'error': ...} dict,
\*   "invalid" the invalid-code error dict, "raise" an exception
Result(status, data) == [status |-> status, data |-> data]

Pending == Result("pending", NoRecord)

\* the keys the fetchers are called with directly
FetchKeys == {Code0050, Code2330}

\* dict assignment d[x] = v, and d.get(x, dflt)
Upd(f, x, v) == [y \in DOMAIN f \cup {x} |-> IF y = x THEN v ELSE f[y]]

Get(f, x, dflt) == IF x \in DOMAIN f THEN f[x] ELSE dflt

----------------------------------------------------------------------------
(* ETFAnalyzer.get_etf_info: validation, the cache, the database, upstream *)

\* cache_timeout = timedelta(minutes=30), in seconds
etf_cache_timeout == 1800

EtfCodes == {Code0050, Code00692, Code006208, CodeAbc, CodeEmpty}

\* `etf_code.isdigit() and len(etf_code) in [4, 5, 6]`
ValidEtfCode(c) == isdigit(c) /\ Len(c) \in {4, 5, 6}

\* 4 digits: '00' + code; 5 digits: '0' + code
NormalizeEtfCode(c) ==
    IF Len(c) = 4 /\ isdigit(c) THEN <<"0", "0">> \o c
    ELSE IF Len(c) = 5 /\ isdigit(c) THEN <<"0">> \o c
    ELSE c

\* StockAnalyzer: cache_timeout = 300, a plain int
stock_cache_timeout == 300

\* self.cache_timeout with its Python type
cache_timeout(k) ==
    IF k = "stock" THEN [type |-> "int", seconds |-> stock_cache_timeout]
                   ELSE [type |-> "timedelta", seconds |-> etf_cache_timeout]

\* `delta < timeout` for a timedelta delta: between two timedeltas the
\* comparison of their lengths; against an int Python raises TypeError
TimedeltaLess(delta, timeout) ==
    IF timeout.type # "timedelta" THEN "TypeError"
    ELSE IF delta < timeout.seconds THEN "True" ELSE "False"

\* `etf_code in self.cache and now - cache_data['timestamp'] < cache_timeout`
CacheLive(ch, k, t) ==
    k \in DOMAIN ch /\ TimedeltaLess(t - ch[k].timestamp, cache_timeout("etf")) = "True"

CacheEntry(d, t) == [data |-> d, timestamp |-> t]

\* collection.find_one({'etf_code': code}): the first match, or None
find_one(db, code) ==
    LET hits == {i \in 1..Len(db) : db[i].etf_code = code}
    IN  IF hits = {} THEN NoRecord
        ELSE db[CHOOSE i \in hits : \A j \in hits : i <= j]

\* what a call has touched so far, and what it found when it started:
\*   db, net    database queries and upstream requests made
\*   looked_up  the cache was consulted
\*   expect     the record a call within cache_timeout of a success must return
\*   had        the record the cache held for the code (live or expired)
\*   expired    the cache held an entry for the code that was past cache_timeout
\*   upstream   what the exchange answered to the call's last request
NoObs == [db |-> 0, net |-> 0, looked_up |-> FALSE, expect |-> NoRecord,
          had |-> NoRecord, expired |-> FALSE, upstream |-> "none"]

\* for a call at time t for code, whose cache ch keeps it under key ck for
\* ttl seconds
StartObsOf(ch, ck, code, t, ttl) ==
    [NoObs EXCEPT
        !.expect = IF code \in DOMAIN last_ok /\ t - last_ok[code].timestamp < ttl
                   THEN last_ok[code].data ELSE NoRecord,
        !.had = IF ck \in DOMAIN ch THEN ch[ck].data ELSE NoRecord,
        !.expired = ck \in DOMAIN ch /\ t - ch[ck].timestamp >= ttl]

StartObs(code, t) == StartObsOf(cache, code, code, t, etf_cache_timeout)

----------------------------------------------------------------------------
(* Actions *)

\* a fresh frame for caller t running operation c on code
Enter(t, c, code) ==
    /\ pc[t] = "idle"
    /\ calls' = calls + 1
    /\ ctx' = [ctx EXCEPT ![t] = c]
    /\ arg' = [arg EXCEPT ![t] = code]
    /\ key' = [key EXCEPT ![t] = code]
    /\ attempt' = [attempt EXCEPT ![t] = 0]
    /\ issued' = [issued EXCEPT ![t] = 0]
    /\ after_success' = [after_success EXCEPT ![t] = 0]
    /\ seen' = [seen EXCEPT ![t] = "nothing"]

\* a caller enters _get_with_retry(key, func) / _make_request(url)
FetchCall(t, ky) ==
    /\ calls < MaxCalls
    /\ Enter(t, "fetch", ky)
    /\ pc' = [pc EXCEPT ![t] = "retry"]
    /\ result' = [result EXCEPT ![t] = Pending]
    /\ obs' = [obs EXCEPT ![t] = NoObs]
    /\ UNCHANGED <<now, kind, bot, fetcher, etfStore, rest>>

\* where a finished fetch hands its result
AfterFetch(c) == IF c = "get_etf_info" THEN "store" ELSE "done"

\* the last second a call of operation c may reach
Horizon(c) == IF c = "fetch" THEN MaxTime ELSE MaxEtfTime

\* one iteration of the retry loop: the interval wait, the request, and the
\* handling of its outcome o (with the back-off sleep when it retries)
RetryAttempt(t, o) ==
    /\ pc[t] = "retry"
    /\ ~RangeExhausted(kind[t], attempt[t])
    /\ o \in FuncOutcomes(kind[t], ctx[t])
    /\ LET k    == kind[t]
           ky   == key[t]
           at   == now + PreWait(k, ky, last_request_time, now)
           d    == Disposition(k, attempt[t], o)
           post == IF d = "retry" THEN BackoffWait(k, attempt[t], o) ELSE 0
       IN  /\ at + post <= Horizon(ctx[t])
           /\ now' = at + post
           /\ last_request_time' = RecordRequest(k, ky, last_request_time, at, o)
           /\ issued' = [issued EXCEPT ![t] = @ + 1]
           /\ after_success' = [after_success EXCEPT ![t] =
                                  IF seen[t] = "ok" THEN @ + 1 ELSE @]
           /\ seen' = [seen EXCEPT ![t] = Seen(@, o)]
           /\ obs' = [obs EXCEPT ![t].net = @ + 1, ![t].upstream = o]
           /\ spaced' = Upd(spaced, <<k, ky>>,
                  Get(spaced, <<k, ky>>, TRUE)
                      /\ Spaced(k, Get(last_issue, <<k, ky>>, NoTime), at))
           /\ last_issue' = Upd(last_issue, <<k, ky>>, at)
           /\ IF d = "retry"
              THEN /\ attempt' = [attempt EXCEPT ![t] = @ + 1]
                   /\ UNCHANGED <<pc, result>>
              ELSE /\ pc' = [pc EXCEPT ![t] = AfterFetch(ctx[t])]
                   /\ result' = [result EXCEPT ![t] =
                         CASE d = "return"      -> Result("ok", Record(ky, "fetched", at))
                           [] d = "return_none" -> Result("none", NoRecord)
                           [] d = "give_up"     -> Result("empty", NoRecord)
                           [] d = "raise"       -> Result("raise", NoRecord)]
                   /\ UNCHANGED attempt
    /\ UNCHANGED <<calls, kind, bot, ctx, arg, key, etfStore, rest>>

\* the loop ran out: `return {}`, or _make_request's final raise
RetryExhausted(t) ==
    /\ pc[t] = "retry"
    /\ RangeExhausted(kind[t], attempt[t])
    /\ pc' = [pc EXCEPT ![t] = AfterFetch(ctx[t])]
    /\ result' = [result EXCEPT ![t] =
          IF kind[t] = "twse" THEN Result("raise", NoRecord)
                              ELSE Result("empty", NoRecord)]
    /\ UNCHANGED <<now, calls, kind, bot, ctx, arg, key, attempt, fetcher, callHist,
                   etfStore, rest>>

\* the caller takes the result; it may call again
Return(t) ==
    /\ pc[t] = "done"
    /\ pc' = [pc EXCEPT ![t] = "idle"]
    /\ ctx' = [ctx EXCEPT ![t] = "none"]
    /\ arg' = [arg EXCEPT ![t] = CodeEmpty]
    /\ key' = [key EXCEPT ![t] = CodeEmpty]
    /\ attempt' = [attempt EXCEPT ![t] = 0]
    /\ result' = [result EXCEPT ![t] = Pending]
    /\ issued' = [issued EXCEPT ![t] = 0]
    /\ after_success' = [after_success EXCEPT ![t] = 0]
    /\ seen' = [seen EXCEPT ![t] = "nothing"]
    /\ obs' = [obs EXCEPT ![t] = NoObs]
    /\ UNCHANGED <<now, calls, kind, bot, fetcher, etfStore, rest>>

\* a second passes between two operations
Tick ==
    /\ now < MaxTime
    /\ \A t \in Callers : pc[t] = "idle"
    /\ now' = now + 1
    /\ UNCHANGED <<calls, kind, bot, frame, fetcher, callHist, etfStore, rest>>

----------------------------------------------------------------------------
(* Actions of ETFAnalyzer.get_etf_info *)

\* calls of get_etf_info in one behaviour
MaxEtfCalls == 2

\* get_etf_info returns res for the code it was called with
EtfFinish(t, code, res) ==
    /\ pc' = [pc EXCEPT ![t] = "done"]
    /\ result' = [result EXCEPT ![t] = res]
    /\ last_ok' = IF res.status = "ok"
                  THEN Upd(last_ok, code, CacheEntry(res.data, now))
                  ELSE last_ok

\* the call, the format check and the cache lookup
EtfCall(t, code) ==
    /\ calls < MaxEtfCalls
    /\ Enter(t, "get_etf_info", code)
    /\ IF ~ValidEtfCode(code)
       THEN /\ obs' = [obs EXCEPT ![t] = StartObs(code, now)]
            /\ EtfFinish(t, code, Result("invalid", NoRecord))
       ELSE /\ obs' = [obs EXCEPT ![t] =
                          [StartObs(code, now) EXCEPT !.looked_up = TRUE]]
            /\ IF CacheLive(cache, code, now)
               THEN EtfFinish(t, code, Result("ok", cache[code].data))
               ELSE /\ pc' = [pc EXCEPT ![t] = "db"]
                    /\ result' = [result EXCEPT ![t] = Pending]
                    /\ UNCHANGED last_ok
    /\ UNCHANGED <<now, kind, bot, fetcher, cache, etf_db, rest>>

\* `collection.find_one({'etf_code': etf_code})`; up: the database answers
EtfDbQuery(t, up) ==
    /\ pc[t] = "db"
    /\ obs' = [obs EXCEPT ![t].db = @ + 1]
    /\ LET r == find_one(etf_db, key[t])
       IN  IF ~up
           THEN /\ EtfFinish(t, arg[t], Result("error", NoRecord))
                /\ UNCHANGED cache
           ELSE IF r # NoRecord
           THEN /\ cache' = Upd(cache, key[t], CacheEntry(r, now))
                /\ EtfFinish(t, arg[t], Result("ok", r))
           ELSE /\ pc' = [pc EXCEPT ![t] = "price"]
                /\ UNCHANGED <<result, cache, last_ok>>
    /\ UNCHANGED <<now, calls, kind, bot, ctx, arg, key, attempt, fetcher,
                   issued, after_success, seen, etf_db, rest>>

\* the realtime quote request; o = "quote": HTTP 200 with a msgArray
EtfPriceRequest(t, o) ==
    /\ pc[t] = "price"
    /\ obs' = [obs EXCEPT ![t].net = @ + 1]
    /\ IF o = "quote"
       THEN LET r == Record(arg[t], "realtime", now)
            IN  /\ cache' = Upd(cache, arg[t], CacheEntry(r, now))
                /\ EtfFinish(t, arg[t], Result("ok", r))
                /\ UNCHANGED key
       ELSE /\ key' = [key EXCEPT ![t] = NormalizeEtfCode(@)]
            /\ pc' = [pc EXCEPT ![t] = "retry"]
            /\ UNCHANGED <<result, cache, last_ok>>
    /\ UNCHANGED <<now, calls, kind, bot, ctx, arg, attempt, fetcher,
                   issued, after_success, seen, etf_db, rest>>

\* after _get_with_retry: the error for an empty result, else insert_one,
\* the cache update and the return
EtfStore(t) ==
    /\ pc[t] = "store"
    /\ IF result[t].status # "ok"
       THEN /\ EtfFinish(t, arg[t], Result("error", NoRecord))
            /\ UNCHANGED <<cache, etf_db>>
       ELSE /\ etf_db' = Append(etf_db, result[t].data)
            /\ cache' = Upd(cache, key[t], CacheEntry(result[t].data, now))
            /\ EtfFinish(t, arg[t], Result("ok", result[t].data))
    /\ UNCHANGED <<now, calls, kind, bot, ctx, arg, key, attempt, fetcher, callHist, rest>>

\* a quarter of an hour passes between two operations
LongTick ==
    /\ now + LongStep <= MaxEtfTime
    /\ \A t \in Callers : pc[t] = "idle"
    /\ now' = now + LongStep
    /\ UNCHANGED <<calls, kind, bot, frame, fetcher, callHist, etfStore, rest>>

----------------------------------------------------------------------------
(* The quote entry points *)

\* StockAnalyzer.get_stock_info calls in one behaviour, and its clock
MaxStockCalls == 3
MaxStockTime == 400
StockStep == 100

\* CACHE_CONFIG['TTL'], the configured lifetime of a stored quote
TTL == 300

CodeSpaced == <<" ", "2", "3", "3", "0">>
CodeDotted == <<"2", "3", ".", "3", "0">>
CodeDot    == <<".">>

Whitespace == {" "}

\* str.strip()
RECURSIVE lstrip(_)
lstrip(s) == IF s # <<>> /\ Head(s) \in Whitespace THEN lstrip(Tail(s)) ELSE s

RECURSIVE rstrip(_)
rstrip(s) ==
    IF s # <<>> /\ s[Len(s)] \in Whitespace THEN rstrip(SubSeq(s, 1, Len(s) - 1))
    ELSE s

strip(s) == rstrip(lstrip(s))

\* str.replace('.', '')
RemoveDots(s) == SelectSeq(s, LAMBDA ch : ch # ".")

\* f"info_{stock_code}"
InfoKey(code) == <<"i", "n", "f", "o", "_">> \o code

\* what the exchange can answer for a code: it has quotes for listed codes
\* only
QuoteOutcomes(code) ==
    IF isdigit(code)
    THEN {"quote", "http_error", "no_data", "incomplete", "bad_number",
          "network_error"}
    ELSE {"http_error", "no_data", "network_error"}

\* the codes the quote entry points are called with
StockCodes == {Code2330, Code0050, CodeAbc}
QuoteCodes == {Code2330, Code0050, CodeAbc, CodeEmpty, CodeSpaced, CodeDotted,
               CodeDot}
SvcCodes == {Code2330, CodeAbc, CodeEmpty}

\* a quote entry point returns res to caller t
QuoteFinish(t, code, res) ==
    /\ pc' = [pc EXCEPT ![t] = "done"]
    /\ result' = [result EXCEPT ![t] = res]
    /\ last_ok' = IF res.status = "ok"
                  THEN Upd(last_ok, code, CacheEntry(res.data, now'))
                  ELSE last_ok

\* StockAnalyzer.get_stock_info(code), the exchange answering with o
StockInfoCall(t, code, o) ==
    LET ck == InfoKey(code)
        start == StartObsOf(stock_cache, ck, code, now, stock_cache_timeout)
        hit == IF ck \in DOMAIN stock_cache
               THEN TimedeltaLess(now - stock_cache[ck].timestamp,
                                  cache_timeout("stock"))
               ELSE "absent"
        fresh == Record(code, "quote", now)
    IN  /\ calls < MaxStockCalls
        /\ Enter(t, "StockAnalyzer.get_stock_info", code)
        /\ o \in QuoteOutcomes(code)
        /\ now' = now
        /\ IF hit = "True"
           THEN /\ obs' = [obs EXCEPT ![t] = [start EXCEPT !.looked_up = TRUE]]
                /\ QuoteFinish(t, code, Result("ok", stock_cache[ck].data))
                /\ UNCHANGED stock_cache
           ELSE IF hit = "TypeError"
           THEN /\ obs' = [obs EXCEPT ![t] = [start EXCEPT !.looked_up = TRUE]]
                /\ QuoteFinish(t, code, Result("error", NoRecord))
                /\ UNCHANGED stock_cache
           ELSE /\ obs' = [obs EXCEPT ![t] =
                              [start EXCEPT !.looked_up = TRUE, !.net = 1]]
                /\ IF o = "quote"
                   THEN /\ stock_cache' = Upd(stock_cache, ck, CacheEntry(fresh, now))
                        /\ QuoteFinish(t, code, Result("ok", fresh))
                   ELSE /\ QuoteFinish(t, code, Result("error", NoRecord))
                        /\ UNCHANGED stock_cache
        /\ UNCHANGED <<kind, bot, fetcher, cache, etf_db, svc_cache, calc, holdings_db>>

\* time passes between two calls of StockAnalyzer
StockTick ==
    /\ now + StockStep <= MaxStockTime
    /\ \A t \in Callers : pc[t] = "idle"
    /\ now' = now + StockStep
    /\ UNCHANGED <<calls, kind, bot, frame, fetcher, callHist, etfStore, quoteStore, calc,
                   holdings_db>>

\* tenacity: stop_after_attempt(3)
stop_after_attempt == 3

\* tenacity: wait_exponential(multiplier=1, min=4, max=10) after attempt n
wait_exponential(n) ==
    LET exp == Pow2(n - 1)
        capped == IF exp > 10 THEN 10 ELSE exp
    IN  IF capped < 4 THEN 4 ELSE capped

RECURSIVE SumWaits(_)
SumWaits(n) == IF n = 0 THEN 0 ELSE SumWaits(n - 1) + wait_exponential(n)

\* the answers on which get_stock_info raises
SvcRaises == {"no_data", "network_error"}

\* StockService.get_stock_info(code): the lru_cache is consulted with the
\* code as passed; on a miss the request is made, nfail attempts raising
\* before the attempt that ends the call with final:
\*   "quote"          a payload that is formatted to a quote,
\*   "none"           a payload for which _format_stock_data returned None,
\*   "no_data"        an answer with an empty or missing msgArray: ValueError,
\*   "network_error"  a RequestException;
\* the last two are raised again, and retried until the last allowed attempt
SvcCall(t, code, nfail, final) ==
    LET start == StartObsOf(svc_cache, code, code, now, TTL)
        fresh == Record(code, "quote", now')
    IN  /\ calls < MaxEtfCalls
        /\ Enter(t, "StockService.get_stock_info", code)
        /\ nfail \in 0..(stop_after_attempt - 1)
        /\ final \in SvcRaises => nfail = stop_after_attempt - 1
        /\ final = "quote" => isdigit(code)
        /\ IF code \in DOMAIN svc_cache
           THEN /\ nfail = 0 /\ final = "quote"
                /\ now' = now
                /\ obs' = [obs EXCEPT ![t] = [start EXCEPT !.looked_up = TRUE]]
                /\ QuoteFinish(t, code,
                       IF svc_cache[code].data = NoRecord
                       THEN Result("none", NoRecord)
                       ELSE Result("ok", svc_cache[code].data))
                /\ UNCHANGED svc_cache
           ELSE /\ now + SumWaits(nfail) <= MaxEtfTime
                /\ now' = now + SumWaits(nfail)
                /\ obs' = [obs EXCEPT ![t] =
                              [start EXCEPT !.looked_up = TRUE, !.net = nfail + 1,
                                            !.upstream = final]]
                /\ IF final = "quote"
                   THEN /\ svc_cache' = Upd(svc_cache, code, CacheEntry(fresh, now'))
                        /\ QuoteFinish(t, code, Result("ok", fresh))
                   ELSE IF final = "none"
                   THEN /\ svc_cache' = Upd(svc_cache, code, CacheEntry(NoRecord, now'))
                        /\ QuoteFinish(t, code, Result("none", NoRecord))
                   ELSE /\ QuoteFinish(t, code, Result("raise", NoRecord))
                        /\ UNCHANGED svc_cache
        /\ UNCHANGED <<kind, bot, fetcher, cache, etf_db, stock_cache, calc, holdings_db>>

\* stock_info.get_stock_info(code), the exchange answering with o
ModuleStockInfoCall(t, code, o) ==
    LET stock_code == RemoveDots(strip(code))
    IN  /\ calls < MaxEtfCalls
        /\ Enter(t, "stock_info.get_stock_info", code)
        /\ now' = now
        /\ IF code = <<>> \/ strip(code) = <<>> \/ ~isdigit(stock_code)
           THEN /\ o = "no_data"
                /\ obs' = [obs EXCEPT ![t] = NoObs]
                /\ result' = [result EXCEPT ![t] = Result("invalid", NoRecord)]
           ELSE /\ obs' = [obs EXCEPT ![t] = [NoObs EXCEPT !.net = 1]]
                /\ result' = [result EXCEPT ![t] =
                       IF o = "quote" THEN Result("ok", Record(stock_code, "quote", now))
                                      ELSE Result("error", NoRecord)]
        /\ pc' = [pc EXCEPT ![t] = "done"]
        /\ UNCHANGED <<kind, bot, fetcher, etfStore, quoteStore, calc, holdings_db>>

----------------------------------------------------------------------------
(* Exact arithmetic: a Python float is modelled by the rational it stands
   for, a pair <<numerator, denominator>> in lowest terms *)

Abs(x) == IF x < 0 THEN -x ELSE x

RECURSIVE GCD(_, _)
GCD(a, b) == IF b = 0 THEN a ELSE GCD(b, a % b)

\* n / d in lowest terms with a positive denominator (d # 0)
Frac(n, d) ==
    LET g == GCD(Abs(n), Abs(d))
        sgn == IF d < 0 THEN -1 ELSE 1
    IN  <<sgn * (n \div g), sgn * (d \div g)>>

RInt(n) == <<n, 1>>
RAdd(a, b) == Frac(a[1] * b[2] + b[1] * a[2], a[2] * b[2])
RSub(a, b) == Frac(a[1] * b[2] - b[1] * a[2], a[2] * b[2])
RMul(a, b) == Frac(a[1] * b[1], a[2] * b[2])
RDiv(a, b) == Frac(a[1] * b[2], a[2] * b[1])
RLe(a, b) == a[1] * b[2] <= b[1] * a[2]

----------------------------------------------------------------------------
(* Quotes made from the exchange's payload *)

\* a field of msgArray[0]: the key is missing, or its value is '-', '', a
\* number written as a string, or a text
Absent   == [k |-> "absent", v |-> 0]
Dash     == [k |-> "dash", v |-> 0]
EmptyStr == [k |-> "empty", v |-> 0]
Num(n)   == [k |-> "num", v |-> n]
Text     == [k |-> "text", v |-> 0]

\* prices a payload carries
PriceVals == {0, 590, 600}

PriceFields == {Absent, Dash, EmptyStr} \cup {Num(n) : n \in PriceVals}
LimitFields == {Absent} \cup {Num(n) : n \in PriceVals}
NameFields == {Absent, EmptyStr, Text}

\* msgArray[0] with z the price, y the previous close, u the upper limit
\* price and n the name
Payloads == [z : PriceFields, y : PriceFields, u : LimitFields, n : NameFields]

\* `if x` for a payload string
Truthy(f) == f.k \in {"dash", "text"} \/ (f.k = "num")

\* stock_info / futures_info safe_float(value, default=0)
safe_float(f) == IF f.k = "num" THEN f.v ELSE 0

\* StockService._safe_float_convert(value, default=0.0)
safe_float_convert(f) == IF f.k = "num" THEN f.v ELSE 0

\* stock_info: `if field not in stock_data: stock_data[field] = '0'`
FillRequired(p) == [f \in DOMAIN p |->
    IF f \in {"n", "z", "y"} /\ p[f] = Absent THEN Num(0) ELSE p[f]]

\* change / base * 100
Percent(change, base) == RMul(RDiv(RInt(change), RInt(base)), RInt(100))

Quote(price, change, pct, name) ==
    [status |-> "ok", price |-> price, change |-> change,
     change_percent |-> pct, name |-> name]

NoQuote(status) ==
    [status |-> status, price |-> 0, change |-> 0,
     change_percent |-> RInt(0), name |-> Absent]

\* stock_info.get_stock_info, from msgArray[0] to the quote fields
StockInfoQuoteOf(p) ==
    LET stock_data == FillRequired(p)
        current_price == safe_float(stock_data.z)
        yesterday_price == safe_float(stock_data.y)
        change == current_price - yesterday_price
    IN  Quote(current_price, change,
              IF yesterday_price > 0 THEN Percent(change, yesterday_price)
                                     ELSE RInt(0),
              stock_data.n)

\* StockService._format_stock_data
format_stock_data(p) ==
    LET current_price == safe_float_convert(p.z)
        change == safe_float_convert(p.y)
        prev_close == safe_float_convert(p.u)
    IN  IF current_price = 0 /\ prev_close = 0 THEN NoQuote("none")
        ELSE Quote(current_price, change,
                   IF prev_close # 0 THEN Percent(change, prev_close) ELSE RInt(0),
                   IF p.n = Absent THEN EmptyStr ELSE p.n)

\* StockAnalyzer.get_stock_info, from msgArray[0] to the result
AnalyzerQuoteOf(p) ==
    IF \E f \in {"n", "z", "y"} : p[f] = Absent THEN NoQuote("error")
    ELSE IF p.z.k = "dash" \/ p.y.k = "dash" THEN NoQuote("error")
    ELSE LET price == IF Truthy(p.z) THEN p.z.v ELSE 0
             prev_price == IF Truthy(p.y) THEN p.y.v ELSE price
             change == price - prev_price
         IN  Quote(price, change,
                   IF prev_price > 0 THEN Percent(change, prev_price) ELSE RInt(0),
                   p.n)

\* futures_info.get_futures_info, from msgArray[0] to the result
FuturesQuoteOf(p) ==
    LET current_price == safe_float(p.z)
        yesterday_price == safe_float(p.y)
        change == current_price - yesterday_price
    IN  Quote(current_price, change,
              IF yesterday_price > 0 THEN Percent(change, yesterday_price)
                                     ELSE RInt(0),
              Text)

QuoteFunctions ==
    {"stock_info.get_stock_info", "StockService._format_stock_data",
     "StockAnalyzer.get_stock_info", "futures_info.get_futures_info"}

\* one of the quote functions is handed the payload
FormatQuote(f) ==
    /\ fn = "none"
    /\ f \in QuoteFunctions
    /\ fn' = f
    /\ output' = CASE f = "stock_info.get_stock_info" -> StockInfoQuoteOf(input)
                   [] f = "StockService._format_stock_data" -> format_stock_data(input)
                   [] f = "StockAnalyzer.get_stock_info" -> AnalyzerQuoteOf(input)
                   [] OTHER -> FuturesQuoteOf(input)
    /\ UNCHANGED <<now, calls, kind, bot, frame, fetcher, callHist, etfStore,
                   quoteStore, input, holdings_db>>

----------------------------------------------------------------------------
(* The overlap of ETF holdings *)

Code0056 == <<"0", "0", "5", "6">>

\* the ETFs whose overlap is asked for, and the holdings lists they can have
OverlapEtfs == {Code0050, Code0056, Code006208}
HoldingLists == {<<"2330", "2317">>, <<"2317", "2454">>, <<"2454">>}

Range(s) == {s[i] : i \in 1..Len(s)}
Min(a, b) == IF a < b THEN a ELSE b

\* the etf_holdings collection: a document for some of the ETFs
HoldingDbs == UNION {[S -> HoldingLists] : S \in SUBSET OverlapEtfs}

\* the etf_codes arguments: every ordering of two or of all three ETFs
OverlapArgs ==
    {a \in [1..2 -> OverlapEtfs] \cup [1..3 -> OverlapEtfs] :
        \A i, j \in DOMAIN a : i # j => a[i] # a[j]}

\* len(x) is an int; `for i in x` over an int raises TypeError
len(x) == [type |-> "int", val |-> IF DOMAIN x = {} THEN 0 ELSE Cardinality(DOMAIN x)]
Iterate(v) == IF v.type = "int" THEN "TypeError" ELSE "ok"

\* len(common_stocks) / min(len(A), len(B))
overlap_ratio(A, B) == Frac(Cardinality(A \cap B), Min(Cardinality(A), Cardinality(B)))

\* the entries of overlap_analysis for the mapping etf_holdings
PairEntries(etf_holdings) ==
    {[etfs |-> {etf1, etf2},
      common_stocks |-> etf_holdings[etf1] \cap etf_holdings[etf2],
      overlap_ratio |-> overlap_ratio(etf_holdings[etf1], etf_holdings[etf2])] :
        <<etf1, etf2>> \in {pr \in (DOMAIN etf_holdings) \X (DOMAIN etf_holdings) :
            /\ pr[1] # pr[2]
            /\ etf_holdings[pr[1]] \cap etf_holdings[pr[2]] # {}}}

NoAnalysis == [status |-> "none", overlap_stocks |-> {}]

\* the documents app.analyze_etf_overlap reads: find({'etf_code': {'$in':
\* etf_codes}}) or, without etf_codes, find({})
FoundHoldings(db, etf_codes) ==
    LET found == IF etf_codes # <<>> THEN DOMAIN db \cap Range(etf_codes)
                                     ELSE DOMAIN db
    IN  [c \in found |-> Range(db[c])]

\* app.analyze_etf_overlap(etf_codes)
AppOverlapOf(db, etf_codes) ==
    LET etf_holdings == FoundHoldings(db, etf_codes)
    IN  IF DOMAIN etf_holdings = {} THEN NoAnalysis
        ELSE IF Iterate(len(etf_holdings)) = "TypeError" THEN NoAnalysis
        ELSE [status |-> "ok", overlap_stocks |-> PairEntries(etf_holdings)]

AppAnalyzeOverlap(etf_codes) ==
    /\ fn = "none"
    /\ fn' = "app.analyze_etf_overlap"
    /\ input' = etf_codes
    /\ output' = AppOverlapOf(holdings_db, etf_codes)
    /\ UNCHANGED <<now, calls, kind, bot, frame, fetcher, callHist, etfStore,
                   quoteStore, holdings_db>>

\* calls of ETFAnalyzer.analyze_etf_overlap in one behaviour
MaxOverlapCalls == 2

\* str comparison of two codes
DigitVal(ch) == CHOOSE i \in 0..9 : <<"0", "1", "2", "3", "4", "5", "6", "7", "8", "9">>[i + 1] = ch

RECURSIVE StrLess(_, _)
StrLess(a, b) ==
    IF a = <<>> THEN b # <<>>
    ELSE IF b = <<>> THEN FALSE
    ELSE IF Head(a) = Head(b) THEN StrLess(Tail(a), Tail(b))
    ELSE DigitVal(Head(a)) < DigitVal(Head(b))

RECURSIVE Insert(_, _)
Insert(x, s) ==
    IF s = <<>> THEN <<x>>
    ELSE IF StrLess(x, Head(s)) THEN <<x>> \o s
    ELSE <<Head(s)>> \o Insert(x, Tail(s))

\* sorted(etf_codes)
RECURSIVE sorted(_)
sorted(s) == IF s = <<>> THEN <<>> ELSE Insert(s[Len(s)], sorted(SubSeq(s, 1, Len(s) - 1)))

\* '_'.join(codes)
RECURSIVE join(_)
join(s) ==
    IF s = <<>> THEN <<>>
    ELSE IF Len(s) = 1 THEN s[1]
    ELSE s[1] \o <<"_">> \o join(Tail(s))

\* f"overlap_{'_'.join(sorted(etf_codes))}"
OverlapKey(etf_codes) == <<"o", "v", "e", "r", "l", "a", "p", "_">> \o join(sorted(etf_codes))

\* what the exchange answers when asked for an ETF's composition: no usable
\* answer, or a list of holdings
NoAnswer == [ok |-> FALSE, holdings |-> <<>>]
Answer(l) == [ok |-> TRUE, holdings |-> l]
NetAnswers == {NoAnswer, Answer(<<>>), Answer(<<"2330", "2317">>), Answer(<<"2317", "2454">>)}

\* the stored holdings the analyzer can fall back to: none, or one list for
\* every ETF
FallbackDbs == {<<>>, [c \in OverlapEtfs |-> <<"2330", "2454">>]}

\* the etf_codes arguments given to the analyzer: every ordering of the
\* three ETFs and of the first two
AnalyzerArgs == {a \in OverlapArgs : Len(a) = 3 \/ Range(a) = {Code0050, Code0056}}

\* fetch_etf_holdings: the collection after the fetches for etf_codes
RECURSIVE DbAfterFetch(_, _, _)
DbAfterFetch(db, net, etf_codes) ==
    IF etf_codes = <<>> THEN db
    ELSE LET c == Head(etf_codes)
         IN  DbAfterFetch(IF net[c].ok THEN Upd(db, c, net[c].holdings) ELSE db,
                          net, Tail(etf_codes))

\* the holdings analyze_etf_overlap works with for one ETF: the fetched
\* list, or the stored one when nothing was fetched
HoldingsOf(db, net, c) ==
    IF net[c].ok /\ net[c].holdings # <<>> THEN net[c].holdings
    ELSE IF net[c].ok THEN <<>>
    ELSE IF c \in DOMAIN db THEN db[c]
    ELSE <<>>

\* how many times stock occurs in the list
RECURSIVE Count(_, _)
Count(l, stock) ==
    IF l = <<>> THEN 0
    ELSE (IF Head(l) = stock THEN 1 ELSE 0) + Count(Tail(l), stock)

\* a loop over etf_codes that skips the first ETF
Scanned_SkipFirst(etf_codes) == Tail(etf_codes)

\* `for etf_code in etf_codes`: the ETFs the loop visits, in order
Scanned(etf_codes) == etf_codes

\* overlap_stocks[stock]['etfs'] after the loop over etf_codes
RECURSIVE EtfsOf(_, _, _, _)
EtfsOf(db, net, etf_codes, stock) ==
    IF etf_codes = <<>> THEN <<>>
    ELSE LET c == etf_codes[Len(etf_codes)]
         IN  EtfsOf(db, net, SubSeq(etf_codes, 1, Len(etf_codes) - 1), stock)
                 \o [i \in 1..Count(HoldingsOf(db, net, c), stock) |-> c]

\* the result's 'overlap_stocks': the stocks listed for more than one ETF
OverlapStocks(db, net, etf_codes) ==
    LET codes == Scanned(etf_codes)
        stocks == UNION {Range(HoldingsOf(db, net, codes[i])) : i \in DOMAIN codes}
        overlapping == {st \in stocks : Len(EtfsOf(db, net, codes, st)) > 1}
    IN  [st \in overlapping |-> EtfsOf(db, net, codes, st)]

\* ETFAnalyzer.analyze_etf_overlap(etf_codes), the exchange answering as
\* input says
AnalyzeOverlap(etf_codes) ==
    LET cache_key == OverlapKey(etf_codes)
        fresh == [timestamp |-> now,
                  overlap_stocks |-> OverlapStocks(holdings_db, input, etf_codes)]
    IN  /\ calls < MaxOverlapCalls
        /\ calls' = calls + 1
        /\ fn' = "ETFAnalyzer.analyze_etf_overlap"
        /\ IF CacheLive(cache, cache_key, now)
           THEN /\ output' = Upd(output, etf_codes, cache[cache_key].data)
                /\ UNCHANGED <<cache, holdings_db>>
           ELSE /\ output' = Upd(output, etf_codes, fresh)
                /\ cache' = Upd(cache, cache_key, CacheEntry(fresh, now))
                /\ holdings_db' = DbAfterFetch(holdings_db, input, etf_codes)
        /\ UNCHANGED <<now, kind, bot, frame, fetcher, callHist, etf_db, last_ok,
                       quoteStore, input>>

----------------------------------------------------------------------------
(* Technical indicators *)

\* closing prices a series is made of, and the longest series handed to
\* _calculate_kd
CloseVals == {10, 11, 13}
MaxKdLen == 10

SeqsOf(S, lo, hi) == UNION {[1..n -> S] : n \in lo..hi}

RECURSIVE SeqMax(_)
SeqMax(s) == IF Len(s) = 1 THEN s[1]
             ELSE LET m == SeqMax(Tail(s)) IN IF s[1] > m THEN s[1] ELSE m

RECURSIVE SeqMin(_)
SeqMin(s) == IF Len(s) = 1 THEN s[1]
             ELSE LET m == SeqMin(Tail(s)) IN IF s[1] < m THEN s[1] ELSE m

\* an RSV that ignores the prices
Rsv_Fifty(closes, i) == RInt(50)

\* the RSV of the nine closes ending at position i (i >= 9)
Rsv(closes, i) ==
    LET window == SubSeq(closes, i - 8, i)
        high == SeqMax(window)
        low == SeqMin(window)
        close == closes[i]
    IN  IF high # low
        THEN RMul(RDiv(RInt(close - low), RInt(high - low)), RInt(100))
        ELSE RInt(50)

\* a blend that forgets to divide the first term: x * 2 + y * 1/3
Blend_Undivided(x, y) == RAdd(RMul(x, RInt(2)), RDiv(RMul(y, RInt(1)), RInt(3)))

\* x * 2/3 + y * 1/3
Blend(x, y) == RAdd(RDiv(RMul(x, RInt(2)), RInt(3)), RDiv(RMul(y, RInt(1)), RInt(3)))

\* the K and D values after each RSV of the loop, starting from 50 and 50
RECURSIVE KdSteps(_, _)
KdSteps(closes, i) ==
    IF i < 9 THEN <<[rsv |-> RInt(50), k |-> RInt(50), d |-> RInt(50)]>>
    ELSE LET before == KdSteps(closes, i - 1)
             last == before[Len(before)]
             rsv == Rsv(closes, i)
             k == Blend(last.k, rsv)
             d == Blend(last.d, k)
         IN  Append(before, [rsv |-> rsv, k |-> k, d |-> d])

\* TWSEAPI._calculate_kd(closes): (None, None), or the last K and D together
\* with every step of the recursion
calculate_kd(closes) ==
    IF Len(closes) < 9 THEN [status |-> "none", steps |-> <<>>]
    ELSE [status |-> "ok", steps |-> KdSteps(closes, Len(closes))]

CalculateKd ==
    /\ fn = "none"
    /\ fn' = "_calculate_kd"
    /\ output' = calculate_kd(input)
    /\ UNCHANGED <<now, calls, kind, bot, frame, fetcher, callHist, etfStore,
                   quoteStore, input, holdings_db>>

\* the longest series handed to _calculate_rsi, and the periods it is
\* called with
MaxRsiLen == 5
RsiPeriods == {2, 3}

RECURSIVE Sum(_)
Sum(s) == IF s = <<>> THEN 0 ELSE Head(s) + Sum(Tail(s))

\* a slice that takes the whole list
LastN_All(s, n) == s

\* s[-n:] for 0 < n
LastN(s, n) == IF n >= Len(s) THEN s ELSE SubSeq(s, Len(s) - n + 1, Len(s))

\* [closes[i] - closes[i-1] for i in range(1, len(closes))]
Changes(closes) == [i \in 1..(Len(closes) - 1) |-> closes[i + 1] - closes[i]]

Gains(changes) == [i \in DOMAIN changes |-> IF changes[i] > 0 THEN changes[i] ELSE 0]
Losses(changes) == [i \in DOMAIN changes |-> IF changes[i] < 0 THEN -changes[i] ELSE 0]

\* TWSEAPI._calculate_rsi(closes, period)
calculate_rsi(closes, period) ==
    IF Len(closes) < period + 1 THEN [status |-> "none", rsi |-> RInt(0)]
    ELSE LET changes == Changes(closes)
             avg_gain == Frac(Sum(LastN(Gains(changes), period)), period)
             avg_loss == Frac(Sum(LastN(Losses(changes), period)), period)
         IN  IF avg_loss = RInt(0) THEN [status |-> "ok", rsi |-> RInt(100)]
             ELSE LET rs == RDiv(avg_gain, avg_loss)
                  IN  [status |-> "ok",
                       rsi |-> RSub(RInt(100), RDiv(RInt(100), RAdd(RInt(1), rs)))]

CalculateRsi ==
    /\ fn = "none"
    /\ fn' = "_calculate_rsi"
    /\ output' = calculate_rsi(input.closes, input.period)
    /\ UNCHANGED <<now, calls, kind, bot, frame, fetcher, callHist, etfStore,
                   quoteStore, input, holdings_db>>

\* Python values whose type the code tests: None, a float, a list
PyNone == [type |-> "None", val |-> <<>>]
PyFloat(r) == [type |-> "float", val |-> r]
PyList(l) == [type |-> "list", val |-> l]

\* the longest STOCK_DAY table, the shapes of its rows, and the tables the
\* exchange may hold: row[6] is the close, a row may be too short to have
\* one, or hold text float() rejects
MaxMaLen == 21
RowSteps == {0, 1}
BadRows == {Absent, Text}
DayTables ==
    LET plain(n, a, b) == [i \in 1..n |-> Num(a + b * (i % 3))]
        Plain == {plain(n, a, b) : n \in 0..MaxMaLen, a \in CloseVals, b \in RowSteps}
    IN  Plain \cup {[t EXCEPT ![1] = bad] : t \in Plain \ {<<>>}, bad \in BadRows}

\* closes: float(row[6]) of every row that has one, in order
RECURSIVE ClosesOf(_)
ClosesOf(data) ==
    IF data = <<>> THEN <<>>
    ELSE LET row == data[Len(data)]
             before == ClosesOf(SubSeq(data, 1, Len(data) - 1))
         IN  IF row.k = "num" THEN Append(before, row.v) ELSE before

\* sum(closes[-w:]) / w if len(closes) >= w else None
MovingAverage(closes, w) ==
    IF Len(closes) >= w THEN PyFloat(Frac(Sum(LastN(closes, w)), w)) ELSE PyNone

\* the default period of _calculate_rsi
rsi_period == 14

\* the kind of value _calculate_kd and _calculate_rsi hand back for a list
\* of this length (their values are calculate_kd and calculate_rsi above)
KdKind(closes) == IF Len(closes) < 9 THEN "None" ELSE "float"
RsiKind(closes) == IF Len(closes) < rsi_period + 1 THEN "None" ELSE "float"

NoIndicators ==
    [status |-> "none", ma5 |-> PyNone, ma10 |-> PyNone, ma20 |-> PyNone,
     k |-> "None", d |-> "None", rsi |-> "None"]

\* TWSEAPI.calculate_technical_indicators once _make_request has answered:
\* None without an answer, without data or without one close
IndicatorsOf(answered, data) ==
    IF ~answered \/ data = <<>> THEN NoIndicators
    ELSE LET closes == ClosesOf(data)
         IN  IF closes = <<>> THEN NoIndicators
             ELSE [status |-> "ok",
                   ma5 |-> MovingAverage(closes, 5),
                   ma10 |-> MovingAverage(closes, 10),
                   ma20 |-> MovingAverage(closes, 20),
                   k |-> KdKind(closes), d |-> KdKind(closes),
                   rsi |-> RsiKind(closes)]

\* TWSEAPI.calculate_technical_indicators(stock_code): one request for the
\* month's table of the code, then the indicators of its closes
CalculateTechnicalIndicators ==
    /\ fn = "none"
    /\ input.kind = "table"
    /\ \E answered \in BOOLEAN :
          /\ fn' = "calculate_technical_indicators"
          /\ output' = [requests |-> 1, value |-> IndicatorsOf(answered, input.data)]
    /\ UNCHANGED <<now, calls, kind, bot, frame, fetcher, callHist, etfStore,
                   quoteStore, input, holdings_db>>

\* the default of every entry of 'technical'
TechnicalDefault == PyList(<<0>>)

\* an entry is kept only when it is a list and not empty
Subscriptable(v) == IF v.type = "list" /\ v.val # <<>> THEN v ELSE TechnicalDefault

\* a float of _calculate_kd or _calculate_rsi, known by its kind only
ComputedFloat == [type |-> "float", val |-> "computed"]

\* the 'technical' entries of stock_info.get_stock_info: the defaults, each
\* overwritten by the indicator that is not None, then each one that is not
\* a non-empty list put back to [0]
TechnicalOf(is_etf, technical_data) ==
    LET copied(name) ==
            IF ~is_etf /\ technical_data.status = "ok" /\ technical_data[name].type # "None"
            THEN technical_data[name] ELSE TechnicalDefault
        copiedKind(name) ==
            IF ~is_etf /\ technical_data.status = "ok" /\ technical_data[name] # "None"
            THEN ComputedFloat ELSE TechnicalDefault
    IN  [ma5 |-> Subscriptable(copied("ma5")),
         ma10 |-> Subscriptable(copied("ma10")),
         ma20 |-> Subscriptable(copied("ma20")),
         k |-> Subscriptable(copiedKind("k")),
         d |-> Subscriptable(copiedKind("d")),
         rsi |-> Subscriptable(copiedKind("rsi"))]

\* stock_info.get_stock_info, from its default indicators on, for a quote
\* that validated: an ETF code asks for no indicators
StockInfoTechnical ==
    /\ fn = "none"
    /\ input.kind = "table"
    /\ \E answered \in BOOLEAN, is_etf \in BOOLEAN :
          /\ fn' = "get_stock_info"
          /\ output' = [requests |-> IF is_etf THEN 0 ELSE 1,
                        is_etf |-> is_etf,
                        technical_data |-> IndicatorsOf(answered, input.data),
                        technical |-> TechnicalOf(is_etf, IndicatorsOf(answered, input.data))]
    /\ UNCHANGED <<now, calls, kind, bot, frame, fetcher, callHist, etfStore,
                   quoteStore, input, holdings_db>>

\* the rolling window of the Bollinger bands
window == 20

\* the history frames handed to the indicator functions: a frame is its
\* columns, each a series; one without a Close column makes data['Close']
\* raise KeyError
BandColumns == {"MA20", "STD20", "Upper", "Lower"}
HistoryFrames ==
    {[c \in {col} |-> [i \in 1..n |-> a + b * (i % 3)]] :
        col \in {"Close", "Open"}, n \in 0..MaxMaLen, a \in CloseVals, b \in RowSteps}

NaN == [type |-> "nan", val |-> <<>>]

RECURSIVE SumSq(_)
SumSq(s) == IF s = <<>> THEN 0 ELSE Head(s) * Head(s) + SumSq(Tail(s))

\* series.rolling(window).mean(): NaN until a whole window is there
RollingMean(series) ==
    [i \in DOMAIN series |->
        IF i < window THEN NaN
        ELSE PyFloat(Frac(Sum(SubSeq(series, i - window + 1, i)), window))]

\* series.rolling(window).std(), each value written as the sample variance
\* it is the square root of
RollingStd(series) ==
    [i \in DOMAIN series |->
        IF i < window THEN NaN
        ELSE LET xs == SubSeq(series, i - window + 1, i)
             IN  [type |-> "sqrt",
                  val |-> Frac(window * SumSq(xs) - Sum(xs) * Sum(xs),
                               window * (window - 1))]]

\* ma + (std * 2) or ma - (std * 2), written as <<mean, sign, variance>>
Band(ma, std, sign) ==
    [i \in DOMAIN ma |->
        IF ma[i].type = "nan" THEN NaN
        ELSE [type |-> "band", val |-> <<ma[i].val, sign * 2, std[i].val>>]]

\* the frame after the four column assignments
WithBands(data) ==
    LET ma == RollingMean(data["Close"])
        std == RollingStd(data["Close"])
    IN  [c \in DOMAIN data \cup BandColumns |->
            CASE c = "MA20" -> ma
              [] c = "STD20" -> std
              [] c = "Upper" -> Band(ma, std, 1)
              [] c = "Lower" -> Band(ma, std, -1)
              [] OTHER -> data[c]]

EmptyDict == [status |-> "empty"]

\* StockAnalyzer._calculate_bollinger_bands(data): the frame it leaves and
\* the dict it returns; KeyError (no Close) and IndexError (.iloc[-1] of an
\* empty column) end in the empty dict
BollingerOf(data) ==
    IF "Close" \notin DOMAIN data THEN [data |-> data, value |-> EmptyDict]
    ELSE LET after == WithBands(data)
             n == Len(data["Close"])
         IN  IF n = 0 THEN [data |-> after, value |-> EmptyDict]
             ELSE [data |-> after,
                   value |-> [status |-> "ok",
                              upper |-> after["Upper"][n],
                              middle |-> after["MA20"][n],
                              lower |-> after["Lower"][n],
                              current_price |-> after["Close"][n]]]

CalculateBollingerBands ==
    /\ fn = "none"
    /\ input.kind = "frame"
    /\ fn' = "_calculate_bollinger_bands"
    /\ input' = [input EXCEPT !.data = BollingerOf(input.data).data]
    /\ output' = [requests |-> 0, value |-> BollingerOf(input.data).value]
    /\ UNCHANGED <<now, calls, kind, bot, frame, fetcher, callHist, etfStore,
                   quoteStore, holdings_db>>

----------------------------------------------------------------------------
(* The orchestrator: commands, handlers and the reply *)

\* what a handler or a collaborator hands back: a string (a fixed reason
\* text, an answer made of data, or the text of an exception), the
\* coroutine of an async function that was called and not awaited, with the
\* string it yields, or an exception on its way up, with the text str(e)
\* gives
Str(text) == [type |-> "str", text |-> text]
Coroutine(text) == [type |-> "coroutine", text |-> text]
Raised == [type |-> "raise", text |-> "raw"]

\* the commands _analyze_user_intent may hand on (any other word, or None
\* when the answer had no COMMAND line), and the words of params
Commands ==
    {"STOCK_QUERY", "STOCK_ANALYSIS", "ETF_ANALYSIS", "DIVIDEND_ANALYSIS",
     "PEER_COMPARISON", "FUTURES_INFO", "ETF_OVERLAP", "MARKET_NEWS",
     "STOCK_NEWS", "PRICE_ALERT", "GENERAL_QUERY", "OTHER", "None"}
ParamWords ==
    {<<>>, <<"2330">>, <<"0050", "0056">>, <<"2330", "600">>,
     <<"2330", "abc">>, <<"2330", "600", "now">>}

\* what goes wrong in the collaborator a handler calls
Failures == {"none", "network", "parsing", "missing"}

\* float(word) raises ValueError for a word that is no number
IsNumber(word) == word \in {"2330", "0050", "0056", "600"}

\* the commands that are served only with params
ParamCommands ==
    {"STOCK_QUERY", "STOCK_ANALYSIS", "ETF_ANALYSIS", "DIVIDEND_ANALYSIS",
     "PEER_COMPARISON", "ETF_OVERLAP", "STOCK_NEWS", "PRICE_ALERT"}

\* the branch of _process_command a command and its params take: a command
\* without the params it needs, and any unknown command, is a general query
Branch(command, params) ==
    IF command \in ParamCommands /\ params # <<>> THEN command
    ELSE IF command \in {"FUTURES_INFO", "MARKET_NEWS"} THEN command
    ELSE "GENERAL_QUERY"

\* how the collaborator of a branch ends under a failure: "value" (data),
\* "empty" (None, [] or a refusal), "blank" (an empty text), "limit" (the
\* month's alerts are used up), "raise"
Outcomes(command, failure) ==
    CASE command \in {"STOCK_QUERY", "STOCK_ANALYSIS"} ->
             \* StockService.get_stock_info re-raises; _format_stock_data
             \* answers None for a payload it cannot use
             IF failure = "none" THEN {"value"}
             ELSE IF failure = "network" THEN {"raise"}
             ELSE {"raise", "empty"}
      [] command = "ETF_ANALYSIS" ->
             \* ETFService.get_etf_holdings answers [] for every failure
             IF failure = "none" THEN {"value", "empty"} ELSE {"empty"}
      [] command \in {"DIVIDEND_ANALYSIS", "PEER_COMPARISON"} -> {"empty"}
      [] command = "FUTURES_INFO" ->
             \* MarketService.get_futures_info answers None for every failure
             IF failure = "none" THEN {"value"} ELSE {"empty"}
      [] command = "ETF_OVERLAP" -> {"empty"}
      [] command = "MARKET_NEWS" -> {"empty"}
      [] command = "STOCK_NEWS" -> {"raise"}
      [] command = "PRICE_ALERT" ->
             IF failure = "none" THEN {"value", "limit"} ELSE {"raise"}
      [] OTHER ->
             \* GeminiClient.generate_response answers its apology for
             \* every failure
             IF failure = "none" THEN {"value", "blank"} ELSE {"empty"}

\* a handler's except branch that answers str(e)
Reason_Raw(e) == Str(e.text)

\* a handler's except branch: the exception is logged, the answer is the
\* handler's fixed text
Reason(e) == Str("reason")

\* try: body / except Exception as e: return the fixed text
Caught(body) == IF body.type = "raise" THEN Reason(body) ELSE body

\* services.stock_service.format_stock_info: the text of the exception is
\* its answer when a field does not take its format
format_stock_info(numeric) == IF numeric THEN Str("answer") ELSE Str("raw")

\* _handle_stock_query: the dict StockService makes holds numbers in every
\* formatted field
HandleStockQuery(o) ==
    Caught(CASE o = "raise" -> Raised
             [] o = "value" -> format_stock_info(TRUE)
             [] OTHER -> Str("reason"))

\* _handle_stock_analysis: the dict StockService makes has no 'error' key,
\* so the answer is the formatted quote and the model's analysis of it
HandleStockAnalysis(o) ==
    Caught(CASE o = "raise" -> Raised
             [] o = "value" -> Str(format_stock_info(TRUE).text)
             [] OTHER -> Str("reason"))

\* _handle_etf_analysis: etf_service.analyze_etf is async and is not
\* awaited, so `analysis` is its coroutine, which is truthy
HandleEtfAnalysis(o) ==
    Caught(Coroutine(IF o = "value" THEN "answer" ELSE "reason"))

\* _handle_dividend_analysis, _handle_peer_comparison: the service's own
\* fixed sentence
HandleService(o) == Caught(Str("reason"))

\* _handle_futures_info, _handle_market_news
HandleInfo(o) == Caught(IF o = "value" THEN Str("answer") ELSE Str("reason"))

\* _handle_etf_overlap: two codes wanted; analyze_etf_overlap answers None
HandleEtfOverlap(params, o) ==
    Caught(IF Len(params) # 2 THEN Str("reason")
           ELSE IF AppOverlapOf(<<>>, params).status = "none" THEN Str("reason")
           ELSE Str("answer"))

\* _handle_stock_news: services.twse_api has no get_stock_news
HandleStockNews(o) == Caught(Raised)

\* _handle_price_alert
HandlePriceAlert(o) ==
    Caught(CASE o = "raise" -> Raised
             [] o = "limit" -> Str("reason")
             [] OTHER -> Str("answer"))

\* the PRICE_ALERT branch: `stock_code, price = params.split()` and
\* float(price) raise ValueError, answered by the format reminder
PriceAlertBranch(params, o) ==
    IF Len(params) # 2 \/ ~IsNumber(params[2]) THEN Str("reason")
    ELSE HandlePriceAlert(o)

\* handle_general_query: the model's answer without its markdown (an empty
\* text stays empty), or its apology
handle_general_query(o) ==
    CASE o = "value" -> Str("answer")
      [] o = "blank" -> Str("empty")
      [] OTHER -> Str("reason")

\* _process_command(command, params, ...): what it returns
process_command(command, params, o) ==
    LET given == params # <<>>
    IN  Caught(
          CASE command = "STOCK_QUERY" /\ given -> HandleStockQuery(o)
            [] command = "STOCK_ANALYSIS" /\ given -> HandleStockAnalysis(o)
            [] command = "ETF_ANALYSIS" /\ given -> HandleEtfAnalysis(o)
            [] command \in {"DIVIDEND_ANALYSIS", "PEER_COMPARISON"} /\ given -> HandleService(o)
            [] command = "FUTURES_INFO" -> HandleInfo(o)
            [] command = "ETF_OVERLAP" /\ given -> HandleEtfOverlap(params, o)
            [] command = "MARKET_NEWS" -> HandleInfo(o)
            [] command = "STOCK_NEWS" /\ given -> HandleStockNews(o)
            [] command = "PRICE_ALERT" /\ given -> PriceAlertBranch(params, o)
            [] OTHER -> handle_general_query(o))

ProcessCommand ==
    /\ fn = "none"
    /\ input.kind = "command"
    /\ \E o \in Outcomes(Branch(input.command, input.params), input.failure) :
          /\ fn' = "_process_command"
          /\ output' = [returned |-> process_command(input.command, input.params, o),
                        escaped |-> FALSE, sent |-> <<>>]
    /\ UNCHANGED <<now, calls, kind, bot, frame, fetcher, callHist, etfStore,
                   quoteStore, input, holdings_db>>

\* the text _handle_message_async is about to reply with: the fixed apology
\* for a falsy response, the string a coroutine yields, and TypeError for
\* anything else that is no string
ResponseText(response) ==
    CASE response.type = "raise" -> Raised
      [] response.type = "str" ->
             IF response.text = "empty" THEN Str("reason") ELSE response
      [] response.type = "coroutine" -> Str(response.text)
      [] OTHER -> Raised

\* _handle_message_async(event): what the user is sent and whether an
\* exception leaves the function; the reply itself may fail, and so may the
\* reply of the apology, whose exception is caught and logged in its turn
handle_message_async(command, params, o, reply_ok, apology_ok) ==
    LET response == ResponseText(process_command(command, params, o))
    IN  IF response.type = "str" /\ reply_ok
        THEN [returned |-> response, escaped |-> FALSE, sent |-> <<response>>]
        ELSE [returned |-> response, escaped |-> FALSE,
              sent |-> IF apology_ok THEN <<Reason(Raised)>> ELSE <<>>]

HandleMessageAsync ==
    /\ fn = "none"
    /\ input.kind = "command"
    /\ \E o \in Outcomes(Branch(input.command, input.params), input.failure) :
       \E reply_ok \in BOOLEAN, apology_ok \in BOOLEAN :
          /\ fn' = "_handle_message_async"
          /\ output' = handle_message_async(input.command, input.params, o,
                                            reply_ok, apology_ok)
    /\ UNCHANGED <<now, calls, kind, bot, frame, fetcher, callHist, etfStore,
                   quoteStore, input, holdings_db>>

----------------------------------------------------------------------------
(* Price alerts *)

\* alert requests in one behaviour, the last second of the alert scenarios
\* and the step of their clock: half a month
MaxAlertCalls == 4
MaxAlertTime == 3888000
HalfMonth == 1296000

\* a calendar month, taken as thirty days of seconds
MonthSeconds == 2592000

\* at most this many alerts per user and month
alert_limit == 2

User1 == <<"U", "1">>
User2 == <<"U", "2">>
AlertUsers == {User1, User2}

\* datetime.now().replace(day=1, hour=0, minute=0, second=0, microsecond=0)
MonthStart(t) == (t \div MonthSeconds) * MonthSeconds

\* count_documents({'user_id': user, 'created_at': {'$gte': since}})
count_documents(coll, user, since) ==
    Cardinality({i \in DOMAIN coll : coll[i].user_id = user /\ coll[i].created_at >= since})

\* a check that lets one alert more through
AtLimit_Above(user_alerts) == user_alerts > alert_limit

\* `user_alerts >= 2`
AtLimit(user_alerts) == user_alerts >= alert_limit

\* a PRICE_ALERT message of a user arrives: _handle_message_async awaits the
\* loading animation and the intent analysis before the handler runs
AlertReceive(t, user) ==
    /\ calls < MaxAlertCalls
    /\ Enter(t, "_handle_price_alert", user)
    /\ pc' = [pc EXCEPT ![t] = "intent"]
    /\ result' = [result EXCEPT ![t] = Pending]
    /\ obs' = [obs EXCEPT ![t] = NoObs]
    /\ UNCHANGED <<now, kind, fetcher, etfStore, rest, bot>>

\* _handle_price_alert(stock_code, target_price, user_id): it awaits nothing,
\* so the count, the check and the insert run as one step of the event
\* loop; a database error stores nothing and answers the fixed text
AlertHandle(t, db_ok) ==
    /\ pc[t] = "intent"
    /\ ctx[t] = "_handle_price_alert"
    /\ pc' = [pc EXCEPT ![t] = "reply"]
    /\ LET user_alerts == count_documents(price_alerts, arg[t], MonthStart(now))
       IN  IF ~db_ok
           THEN /\ result' = [result EXCEPT ![t] = Result("error", NoRecord)]
                /\ UNCHANGED price_alerts
           ELSE IF AtLimit(user_alerts)
           THEN /\ result' = [result EXCEPT ![t] = Result("limit", NoRecord)]
                /\ UNCHANGED price_alerts
           ELSE /\ result' = [result EXCEPT ![t] = Result("set", NoRecord)]
                /\ price_alerts' = Append(price_alerts,
                                          [user_id |-> arg[t], created_at |-> now])
    /\ UNCHANGED <<now, calls, kind, ctx, arg, key, attempt, fetcher, callHist,
                   etfStore, rest, dividend_cache, util_cache, gemini_cache,
                   instance>>

\* the answer is replied
AlertReply(t) ==
    /\ pc[t] = "reply"
    /\ ctx[t] = "_handle_price_alert"
    /\ pc' = [pc EXCEPT ![t] = "done"]
    /\ UNCHANGED <<now, calls, kind, ctx, arg, key, attempt, result, fetcher,
                   callHist, etfStore, rest, bot>>

\* half a month passes, whatever the requests are doing
MonthTick ==
    /\ now + HalfMonth <= MaxAlertTime
    /\ now' = now + HalfMonth
    /\ UNCHANGED <<calls, kind, bot, frame, fetcher, callHist, etfStore, rest>>

----------------------------------------------------------------------------
(* The overlap broadcast *)

\* send_etf_overlap_analysis(max_retries=3)
push_max_retries == 3

\* CronTrigger(day='7,14', hour=9, minute=0)
CronDays == {7, 14}

\* the methods of services.etf_service.ETFService, whose instance app.py
\* imports as etf_service
ETFServiceMethods == {"analyze_etf", "get_etf_holdings"}

\* the users collection, the number of failing pushes before a push to each
\* user succeeds, and the day of the month
Registered == {<<>>, <<User1>>, <<User1, User2>>}
PushFailures == 0..push_max_retries
BroadcastInputs ==
    {x \in [kind : {"broadcast"}, users : Registered,
            fails : [1..2 -> PushFailures], overlap : BOOLEAN, day : {1, 7, 14}] :
        \A i \in 1..2 : i > Len(x.users) => x.fails[i] = 0}

\* the inner loop: `for attempt in range(max_retries)`, left at the first
\* push that does not raise
PushAttempts(user, fails) ==
    [n \in 1..Min(fails + 1, push_max_retries) |->
        [user_id |-> user, delivered |-> n = fails + 1]]

\* the outer loop: `for user in users`
RECURSIVE PushAll(_, _, _)
PushAll(users, fails, i) ==
    IF i > Len(users) THEN <<>>
    ELSE PushAttempts(users[i], fails[i]) \o PushAll(users, fails, i + 1)

\* send_etf_overlap_analysis: the pushes it attempted, in order, and the
\* error its outer handler logged; the lookup of a method the service does
\* not have raises AttributeError before the first push
send_etf_overlap_analysis(users, fails, overlap) ==
    IF "analyze_etf_overlap" \notin ETFServiceMethods
    THEN [pushes |-> <<>>, logged |-> "AttributeError"]
    ELSE IF ~overlap
    THEN [pushes |-> <<>>, logged |-> "none"]
    ELSE IF "format_overlap_analysis" \notin ETFServiceMethods
    THEN [pushes |-> <<>>, logged |-> "AttributeError"]
    ELSE [pushes |-> PushAll(users, fails, 1), logged |-> "none"]

\* the scheduler runs the job on the 7th and the 14th
SendEtfOverlapAnalysis ==
    /\ fn = "none"
    /\ input.kind = "broadcast"
    /\ input.day \in CronDays
    /\ fn' = "send_etf_overlap_analysis"
    /\ output' = send_etf_overlap_analysis(input.users, input.fails, input.overlap)
    /\ UNCHANGED <<now, calls, kind, bot, frame, fetcher, callHist, etfStore,
                   quoteStore, input, holdings_db>>

----------------------------------------------------------------------------
(* What a fetcher hands back once its attempts are used up *)

\* what the caller of a fetcher holds afterwards: the value returned, or the
\* exception that came out
Returned_(value) == [returned |-> value, raised |-> "none"]
Raised_(exception) == [returned |-> "none", raised |-> exception]

\* the exception behind each outcome of requests.get / response.json
ExceptionOf(o) ==
    CASE o = "empty"        -> "ValueError"
      [] o = "bad_json"     -> "JSONDecodeError"
      [] o = "rate_limited" -> "HTTPError 429"
      [] o = "permanent"    -> "HTTPError 404"
      [] o = "transient"    -> "ConnectionError"

\* the retry loop of fetcher k from attempt a on, when the attempts have the
\* outcomes os: ETFAnalyzer._get_with_retry and TWSEAPI._make_request
RECURSIVE RunRetry(_, _, _)
RunRetry(k, os, a) ==
    IF RangeExhausted(k, a)
    THEN IF k = "twse" THEN Raised_("Exception") ELSE Returned_("{}")
    ELSE LET d == Disposition(k, a, os[a + 1])
         IN  CASE d = "retry"       -> RunRetry(k, os, a + 1)
               [] d = "return"      -> Returned_("data")
               [] d = "return_none" -> Returned_("None")
               [] d = "give_up"     -> Returned_("{}")
               [] d = "raise"       -> Raised_(ExceptionOf(os[a + 1]))

\* the tail of get_etf_info: `if not etf_data: return {'error': ...}`
EtfInfoOf(etf_data) ==
    IF etf_data.returned = "{}"
    THEN Returned_("{'error': ...}")
    ELSE etf_data

\* the entry points that run a retry loop, and the outcomes of their attempts
RetryEntries == {"_get_with_retry", "get_etf_info", "_make_request"}
EntryKind(via) == IF via = "_make_request" THEN "twse" ELSE "etf"
RetryInputs ==
    UNION {[kind : {"retry"}, via : {via},
            outcomes : [1..max_retries(EntryKind(via)) ->
                           FuncOutcomes(EntryKind(via), "fetch")]] :
           via \in RetryEntries}

RunOf(x) ==
    LET r == RunRetry(EntryKind(x.via), x.outcomes, 0)
    IN  IF x.via = "get_etf_info" THEN EtfInfoOf(r) ELSE r

\* ETFAnalyzer._get_with_retry(etf_code, func)
GetWithRetryRun ==
    /\ fn = "none"
    /\ input.kind = "retry"
    /\ input.via = "_get_with_retry"
    /\ fn' = "_get_with_retry"
    /\ output' = RunOf(input)
    /\ UNCHANGED <<now, calls, kind, bot, frame, fetcher, callHist, etfStore,
                   quoteStore, input, holdings_db>>

\* ETFAnalyzer.get_etf_info(etf_code), from its upstream request on
GetEtfInfoRun ==
    /\ fn = "none"
    /\ input.kind = "retry"
    /\ input.via = "get_etf_info"
    /\ fn' = "get_etf_info"
    /\ output' = RunOf(input)
    /\ UNCHANGED <<now, calls, kind, bot, frame, fetcher, callHist, etfStore,
                   quoteStore, input, holdings_db>>

\* TWSEAPI._make_request(url)
MakeRequestRun ==
    /\ fn = "none"
    /\ input.kind = "retry"
    /\ input.via = "_make_request"
    /\ fn' = "_make_request"
    /\ output' = RunOf(input)
    /\ UNCHANGED <<now, calls, kind, bot, frame, fetcher, callHist, etfStore,
                   quoteStore, input, holdings_db>>

----------------------------------------------------------------------------
(* Requests in flight and their deadlines *)

\* fetching operations in one behaviour
MaxDeadlineCalls == 2

\* requests.get(url, ..., timeout=10)
request_timeout == 10

\* the fetching operation of each class, the `timeout=` its requests.get is
\* given, and the attempts it makes: StockAnalyzer.get_stock_info has no loop
DeadlineKinds == {"twse", "stock", "dividend"}
FetchOp(k) ==
    CASE k = "twse"     -> "_make_request"
      [] k = "stock"    -> "get_stock_info"
      [] k = "dividend" -> "get_dividend_info"
TimeoutOf(k) == IF k = "twse" THEN request_timeout ELSE NoTime
AttemptsOf(k) == IF k = "stock" THEN 1 ELSE max_retries(k)

\* a fetching operation is called
FetchOpCall(t, ky) ==
    /\ calls < MaxDeadlineCalls
    /\ Enter(t, FetchOp(kind[t]), ky)
    /\ pc' = [pc EXCEPT ![t] = "request"]
    /\ result' = [result EXCEPT ![t] = Pending]
    /\ obs' = [obs EXCEPT ![t] = NoObs]
    /\ UNCHANGED <<now, kind, bot, fetcher, etfStore, rest>>

\* requests.get(...) sends the request and blocks
SendRequest(t) ==
    /\ pc[t] = "request"
    /\ pc' = [pc EXCEPT ![t] = "waiting"]
    /\ issued' = [issued EXCEPT ![t] = @ + 1]
    /\ last_issue' = Upd(last_issue, <<kind[t], key[t]>>, now)
    /\ UNCHANGED <<now, calls, kind, bot, ctx, arg, key, attempt, result,
                   last_request_time, spaced, after_success, seen, obs,
                   etfStore, rest>>

\* the attempt that began at `from` has failed: the next attempt after the
\* back-off, or the end of the operation once the attempts are used up
FailAttempt(t, from) ==
    IF attempt[t] < AttemptsOf(kind[t]) - 1
    THEN /\ now' = from + BackoffWait(kind[t], attempt[t], "transient")
         /\ attempt' = [attempt EXCEPT ![t] = @ + 1]
         /\ pc' = [pc EXCEPT ![t] = "request"]
         /\ UNCHANGED result
    ELSE /\ now' = from
         /\ pc' = [pc EXCEPT ![t] = "done"]
         /\ result' = [result EXCEPT ![t] =
               CASE kind[t] = "twse"     -> Result("raise", NoRecord)
                 [] kind[t] = "stock"    -> Result("error", NoRecord)
                 [] kind[t] = "dividend" -> Result("empty", NoRecord)]
         /\ UNCHANGED attempt

\* the upstream answers a second later, with data or with an error
Respond(t, o) ==
    /\ pc[t] = "waiting"
    /\ o \in {"ok", "transient"}
    /\ IF o = "ok"
       THEN /\ now' = now + 1
            /\ pc' = [pc EXCEPT ![t] = "done"]
            /\ result' = [result EXCEPT ![t] =
                             Result("ok", Record(key[t], "fetched", now + 1))]
            /\ UNCHANGED attempt
       ELSE FailAttempt(t, now + 1)
    /\ obs' = [obs EXCEPT ![t].net = @ + 1, ![t].upstream = o]
    /\ UNCHANGED <<calls, kind, bot, ctx, arg, key, fetcher, issued,
                   after_success, seen, etfStore, rest>>

\* the upstream stays silent and the deadline of the request passes:
\* requests raises Timeout, a RequestException
RequestTimeout(t) ==
    /\ pc[t] = "waiting"
    /\ TimeoutOf(kind[t]) # NoTime
    /\ FailAttempt(t, last_issue[<<kind[t], key[t]>>] + TimeoutOf(kind[t]))
    /\ obs' = [obs EXCEPT ![t].net = @ + 1, ![t].upstream = "silent"]
    /\ UNCHANGED <<calls, kind, bot, ctx, arg, key, fetcher, issued,
                   after_success, seen, etfStore, rest>>

----------------------------------------------------------------------------
(* The caches filled after a fetch *)

\* f"dividend_{stock_code}", f"technical_{stock_code}", "etf_ranking"
DividendKey(code) == <<"dividend", code>>
TechnicalKey(code) == <<"technical", code>>
RankingKey == <<"etf_ranking">>

\* the retry loop of fetcher k when every attempt has the outcome o
FetchAll(k, o) == RunRetry(k, [i \in 1..max_retries(k) |-> o], 0).returned

\* DividendAnalyzer.get_dividend_info(stock_code): a live cache entry, else
\* the stored document, else the fetch, whose result is inserted and cached
\* whatever it is; insert_one adds an _id to the empty dict of a failed fetch
GetDividendInfo(code, o, found, db_ok) ==
    LET cache_key == DividendKey(code)
        live == /\ cache_key \in DOMAIN dividend_cache
                /\ TimedeltaLess(now - dividend_cache[cache_key].timestamp,
                                 cache_timeout("dividend")) = "True"
        dividend_info == FetchAll("dividend", o)
    IN  /\ IF live \/ ~db_ok
           THEN UNCHANGED dividend_cache
           ELSE IF found
           THEN dividend_cache' = Upd(dividend_cache, cache_key, CacheEntry("stored", now))
           ELSE dividend_cache' = Upd(dividend_cache, cache_key,
                   CacheEntry(IF dividend_info = "{}" THEN "{'_id'}" ELSE dividend_info,
                              now))
        /\ UNCHANGED <<now, calls, kind, frame, fetcher, callHist, etfStore,
                       quoteStore, calc, holdings_db, price_alerts, util_cache,
                       gemini_cache, instance>>

\* StockAnalyzer.get_technical_analysis(stock_code): the comparison of a
\* cached entry's age with cache_timeout raises, and the handler returns {};
\* without an entry the result of the retry loop is cached whatever it is
GetTechnicalAnalysis(code, o) ==
    LET cache_key == TechnicalKey(code)
        hit == IF cache_key \in DOMAIN stock_cache
               THEN TimedeltaLess(now - stock_cache[cache_key].timestamp,
                                  cache_timeout("stock"))
               ELSE "False"
    IN  /\ IF hit = "False"
           THEN stock_cache' = Upd(stock_cache, cache_key,
                                   CacheEntry(FetchAll("stock", o), now))
           ELSE UNCHANGED stock_cache
        /\ UNCHANGED <<now, calls, kind, bot, frame, fetcher, callHist, etfStore,
                       svc_cache, calc, holdings_db>>

\* ETFAnalyzer.get_etf_ranking(): _fetch_ranking is `pass`, so each retry
\* loop sees None at every attempt; the dict of their results is cached
GetEtfRanking ==
    /\ IF CacheLive(cache, RankingKey, now)
       THEN UNCHANGED cache
       ELSE cache' = Upd(cache, RankingKey, CacheEntry(FetchAll("etf", "none"), now))
    /\ UNCHANGED <<now, calls, kind, bot, frame, fetcher, callHist, etf_db, last_ok,
                   quoteStore, calc, holdings_db>>

\* a quarter of an hour passes
CacheTick ==
    /\ now + LongStep <= MaxEtfTime
    /\ now' = now + LongStep
    /\ UNCHANGED <<calls, kind, bot, frame, fetcher, callHist, etfStore, rest>>

----------------------------------------------------------------------------
(* utils.cache.Cache and the response cache of GeminiClient *)

\* the capacity of the two caches: CACHE_CONFIG['MAX_SIZE'] and
\* max_cache_size are 1000 in the source, the scenarios take a capacity
\* small enough to be filled
max_size == 2
max_cache_size == 2

\* GeminiClient.cache_timeout, seconds
gemini_cache_timeout == 300

\* the last second of the cache scenarios and the step of their clock
MaxUtilTime == 400
UtilStep == 200

CacheKeys == {"k1", "k2", "k3"}
Prompts == {"p1", "p2", "p3"}

\* a dict in insertion order: the entries, their keys, the place of a key
KeysOf(c) == {c[i].key : i \in DOMAIN c}
IndexOf(c, k) == CHOOSE i \in DOMAIN c : c[i].key = k
Without(c, i) == [j \in 1..(Len(c) - 1) |-> IF j < i THEN c[j] ELSE c[j + 1]]

\* self._cache[key] = {...}: a known key keeps its place, a new one is last
Assign(c, k, t) ==
    IF k \in KeysOf(c)
    THEN [c EXCEPT ![IndexOf(c, k)] = [key |-> k, timestamp |-> t]]
    ELSE Append(c, [key |-> k, timestamp |-> t])

\* the entry stored last
newest_index(c) ==
    CHOOSE i \in DOMAIN c :
        /\ \A j \in DOMAIN c : c[j].timestamp <= c[i].timestamp
        /\ \A j \in DOMAIN c : j > i => c[j].timestamp < c[i].timestamp

\* min(self._cache.items(), key=lambda x: x[1]['timestamp']): the first of
\* the entries with the least timestamp
oldest_index(c) ==
    CHOOSE i \in DOMAIN c :
        /\ \A j \in DOMAIN c : c[i].timestamp <= c[j].timestamp
        /\ \A j \in DOMAIN c : j < i => c[j].timestamp > c[i].timestamp

\* the entries whose age is over the lifetime
ExpiredIn(c, t, lifetime) == {i \in DOMAIN c : t - c[i].timestamp > lifetime}

\* Cache.get(key)
CacheGet(k) ==
    /\ fn' = "Cache.get"
    /\ input' = k
    /\ IF k \notin KeysOf(util_cache)
       THEN /\ output' = [returned |-> "None", evicted |-> "none"]
            /\ UNCHANGED util_cache
       ELSE IF IndexOf(util_cache, k) \in ExpiredIn(util_cache, now, TTL)
       THEN /\ output' = [returned |-> "None", evicted |-> "none"]
            /\ util_cache' = Without(util_cache, IndexOf(util_cache, k))
       ELSE /\ output' = [returned |-> "value", evicted |-> "none"]
            /\ UNCHANGED util_cache
    /\ UNCHANGED <<now, calls, kind, frame, fetcher, callHist, etfStore, quoteStore,
                   holdings_db, price_alerts, dividend_cache, gemini_cache,
                   instance>>

\* Cache.set(key, value): a full cache loses its oldest entry first, also
\* when the key is already stored
CacheSet(k) ==
    LET full == Len(util_cache) >= max_size
        kept == IF full THEN Without(util_cache, oldest_index(util_cache))
                        ELSE util_cache
    IN  /\ fn' = "Cache.set"
        /\ input' = k
        /\ output' = [returned |-> "None",
                      evicted |-> IF full THEN util_cache[oldest_index(util_cache)].key
                                          ELSE "none"]
        /\ util_cache' = Assign(kept, k, now)
        /\ UNCHANGED <<now, calls, kind, frame, fetcher, callHist, etfStore,
                       quoteStore, holdings_db, price_alerts, dividend_cache,
                       gemini_cache, instance>>

\* Cache.clear()
CacheClear ==
    /\ fn' = "Cache.clear"
    /\ input' = "none"
    /\ output' = [returned |-> "None", evicted |-> "none"]
    /\ util_cache' = <<>>
    /\ UNCHANGED <<now, calls, kind, frame, fetcher, callHist, etfStore, quoteStore,
                   holdings_db, price_alerts, dividend_cache, gemini_cache,
                   instance>>

\* GeminiClient._clean_cache(): the entries past cache_timeout go, then the
\* oldest ones of a cache that is over its capacity
RECURSIVE DropOldest(_, _)
DropOldest(c, n) ==
    IF n <= 0 THEN c ELSE DropOldest(Without(c, oldest_index(c)), n - 1)

clean_cache(c, t) ==
    LET Live(e) == t - e.timestamp <= gemini_cache_timeout
        live == SelectSeq(c, Live)
    IN  DropOldest(live, Len(live) - max_cache_size)

\* GeminiClient.generate_response(prompt, user_id): the clean-up, then the
\* cached answer, else the rate limit, the topic filter and the model, whose
\* answer is cached
GenerateResponse(p, o) ==
    LET cleaned == clean_cache(gemini_cache, now)
        hit == /\ p \in KeysOf(cleaned)
               /\ now - cleaned[IndexOf(cleaned, p)].timestamp < gemini_cache_timeout
    IN  /\ o \in {"answer", "rate_limited", "unrelated", "raise"}
        /\ fn' = "generate_response"
        /\ input' = p
        /\ output' = [returned |-> IF hit THEN "cached" ELSE o, evicted |-> "none"]
        /\ gemini_cache' = IF ~hit /\ o = "answer" THEN Assign(cleaned, p, now)
                                                   ELSE cleaned
        /\ UNCHANGED <<now, calls, kind, frame, fetcher, callHist, etfStore,
                       quoteStore, holdings_db, price_alerts, dividend_cache,
                       util_cache, instance>>

\* time passes between two calls
UtilTick ==
    /\ now + UtilStep <= MaxUtilTime
    /\ now' = now + UtilStep
    /\ UNCHANGED <<calls, kind, bot, frame, fetcher, callHist, etfStore, rest>>

----------------------------------------------------------------------------
(* The stochastic oscillator over the rows of a month *)

\* the longest month of rows whose closes reach _calculate_kd, the quiet days
\* it begins with, and how far a day's high and low lie from its close
MaxBarsLen == 10
QuietDays == 6
Spreads == {0, 1}

\* a row of the exchange's table: row[4] the high, row[5] the low, row[6]
\* the close
DayRow(close, spread) == [high |-> close + spread, low |-> close - spread, close |-> close]
BarSeries ==
    {[i \in 1..(QuietDays + Len(c)) |->
         DayRow(IF i <= QuietDays THEN a ELSE c[i - QuietDays], s)] :
        a \in CloseVals, c \in SeqsOf(CloseVals, 2, MaxBarsLen - QuietDays),
        s \in Spreads}

\* calculate_technical_indicators keeps float(row[6]) of every row
RowCloses(data) == [i \in DOMAIN data |-> data[i].close]

\* calculate_technical_indicators hands the closes of the rows to
\* _calculate_kd
CalculateKdOfRows ==
    /\ fn = "none"
    /\ input.kind = "bars"
    /\ fn' = "_calculate_kd"
    /\ output' = calculate_kd(RowCloses(input.data))
    /\ UNCHANGED <<now, calls, kind, bot, frame, fetcher, callHist, etfStore,
                   quoteStore, input, holdings_db>>

----------------------------------------------------------------------------
(* Overlap analysis of lists that repeat a code *)

\* answers of the exchange with a stock listed twice, and etf_codes
\* arguments that name an ETF twice
RepeatAnswers == {NoAnswer, Answer(<<"2330", "2330">>), Answer(<<"2330", "2317">>)}
RepeatArgs == {<<Code0050, Code0050>>, <<Code0050, Code0056>>,
               <<Code0050, Code0056, Code006208>>}

----------------------------------------------------------------------------
(* GeminiClient: the per-user limiter in front of the model *)

\* GeminiClient.rate_limit, seconds
rate_limit == 1

\* requests in one behaviour, and the last second a one-second step leads to
MaxGeminiCalls == 4
MaxGeminiTime == 2

GeminiUsers == {"u1", "u2"}
GeminiPrompts == {"fund", "stock", "weather"}

\* _is_investment_related(prompt)
InvestmentRelated(prompt) == prompt \in {"fund", "stock"}

\* f"response_{user_id}_{hash(prompt)}"
ResponseKey(user, prompt) == <<user, prompt>>

\* the limiter's slot of a user
Slot(user) == <<"gemini", user>>

\* a limiter that lets everything through
Limited_Never(time_diff) == FALSE

\* `time_diff < self.rate_limit`
Limited(time_diff) == time_diff < rate_limit

\* GeminiClient.generate_response(prompt, user_id): the clean-up, the cached
\* answer, the limiter, the stamp of the request, the topic filter, the
\* model, and the cache entry for its answer
GeminiGenerate(user, prompt, model_ok) ==
    LET cleaned == clean_cache(gemini_cache, now)
        cache_key == ResponseKey(user, prompt)
        hit == /\ cache_key \in KeysOf(cleaned)
               /\ now - cleaned[IndexOf(cleaned, cache_key)].timestamp < gemini_cache_timeout
        rejected == /\ Slot(user) \in DOMAIN last_request_time
                    /\ Limited(now - last_request_time[Slot(user)])
        forwarded == ~hit /\ ~rejected /\ InvestmentRelated(prompt)
        returned == IF hit THEN "cached"
                    ELSE IF rejected THEN "rejected"
                    ELSE IF ~InvestmentRelated(prompt) THEN "off_topic"
                    ELSE IF model_ok THEN "answer" ELSE "apology"
    IN  /\ calls < MaxGeminiCalls
        /\ calls' = calls + 1
        /\ fn' = "generate_response"
        /\ input' = [user |-> user, prompt |-> prompt]
        /\ output' = [returned |-> returned, forwarded |-> forwarded]
        /\ last_request_time' = IF hit \/ rejected THEN last_request_time
                                ELSE Upd(last_request_time, Slot(user), now)
        /\ last_issue' = IF forwarded THEN Upd(last_issue, Slot(user), now)
                                      ELSE last_issue
        /\ gemini_cache' = IF returned = "answer" THEN Assign(cleaned, cache_key, now)
                                                  ELSE cleaned
        /\ UNCHANGED <<now, kind, frame, spaced, callHist, etfStore, quoteStore,
                       holdings_db, price_alerts, dividend_cache, util_cache,
                       instance>>

\* a second passes
SecondTick ==
    /\ now < MaxGeminiTime
    /\ now' = now + 1
    /\ UNCHANGED <<calls, kind, bot, frame, fetcher, callHist, etfStore, rest>>

----------------------------------------------------------------------------
(* Database: the singleton and its connection *)

\* Database._max_retries, Database._retry_delay (seconds)
db_max_retries == 3
db_retry_delay == 5

\* Database() calls in one behaviour
MaxDbCalls == 3

\* `_instance = None`; `created` tells None from an object, `initialized` is
\* history: a run of _initialize on the object has returned
NoInstance == [created |-> FALSE, client |-> "unset", db |-> FALSE, initialized |-> FALSE]

\* what one pass of the loop of _initialize meets:
\*   ping1        the client with the CA file answers the ping
\*   ping2        only the client that allows invalid certificates answers
\*   timeout      the second ping raises ServerSelectionTimeoutError
\*   error        the second ping raises another exception
\*   index_error  the pings succeed, _create_indexes raises
ConnectOutcomes == {"ping1", "ping2", "timeout", "error", "index_error"}

\* the outcomes of the passes, one for each pass the loop can make
ConnectRuns == [1..db_max_retries -> ConnectOutcomes]

\* Database._initialize with `retries` failed passes behind it: whether it
\* raised, the attributes it left on the object, and the delays it slept
RECURSIVE initialize(_, _)
initialize(outcomes, retries) ==
    LET o == outcomes[retries + 1]
    IN  CASE o = "ping1" ->
               [raised |-> FALSE, client |-> "tlsCAFile", db |-> TRUE, slept |-> retries]
          [] o = "ping2" ->
               [raised |-> FALSE, client |-> "tlsAllowInvalid", db |-> TRUE, slept |-> retries]
          [] o = "index_error" ->
               [raised |-> TRUE, client |-> "tlsCAFile", db |-> TRUE, slept |-> retries]
          [] o = "error" ->
               [raised |-> TRUE, client |-> "tlsAllowInvalid", db |-> FALSE, slept |-> retries]
          [] o = "timeout" ->
               IF retries + 1 < db_max_retries
               THEN initialize(outcomes, retries + 1)
               ELSE [raised |-> TRUE, client |-> "tlsAllowInvalid", db |-> FALSE,
                     slept |-> retries]

\* Database(): __new__ stores the new object in _instance, then runs
\* _initialize on it; with an object stored it returns that object
DatabaseNew(outcomes) ==
    LET run == initialize(outcomes, 0)
    IN  /\ calls < MaxDbCalls
        /\ calls' = calls + 1
        /\ fn' = "Database"
        /\ input' = outcomes
        /\ IF ~instance.created
           THEN /\ instance' = [created |-> TRUE, client |-> run.client, db |-> run.db,
                                initialized |-> ~run.raised]
                /\ output' = [returned |-> IF run.raised THEN "raised" ELSE "instance",
                              initialize_ran |-> TRUE]
                /\ now' = now + db_retry_delay * run.slept
           ELSE /\ output' = [returned |-> "instance", initialize_ran |-> FALSE]
                /\ UNCHANGED <<instance, now>>
        /\ UNCHANGED <<kind, frame, fetcher, callHist, etfStore, quoteStore,
                       holdings_db, price_alerts, dividend_cache, util_cache,
                       gemini_cache>>

----------------------------------------------------------------------------
(* Initial states and specifications *)

\* no computation has been applied
NoCalc ==
    /\ fn = "none"
    /\ input = <<>>
    /\ output = <<>>

\* no operation is running and every object is new
InitIdle ==
    /\ now = 0
    /\ calls = 0
    /\ pc = [t \in Callers |-> "idle"]
    /\ ctx = [t \in Callers |-> "none"]
    /\ arg = [t \in Callers |-> CodeEmpty]
    /\ key = [t \in Callers |-> CodeEmpty]
    /\ attempt = [t \in Callers |-> 0]
    /\ result = [t \in Callers |-> Pending]
    /\ issued = [t \in Callers |-> 0]
    /\ after_success = [t \in Callers |-> 0]
    /\ seen = [t \in Callers |-> "nothing"]
    /\ obs = [t \in Callers |-> NoObs]
    /\ last_request_time = <<>>
    /\ spaced = <<>>
    /\ last_issue = <<>>
    /\ stock_cache = <<>>
    /\ svc_cache = <<>>
    /\ price_alerts = <<>>
    /\ dividend_cache = <<>>
    /\ util_cache = <<>>
    /\ gemini_cache = <<>>
    /\ instance = NoInstance

\* nothing is stored in the etf_holdings collection
NoHoldings == holdings_db = <<>>

InitFrame == InitIdle /\ NoCalc /\ NoHoldings

\* a new ETFAnalyzer; the collection is empty or holds a record an earlier
\* run of the program inserted
InitEtf ==
    /\ kind = [t \in Callers |-> "etf"]
    /\ cache = <<>>
    /\ last_ok = <<>>
    /\ etf_db \in {<<>>, <<Record(Code006208, "stored", 0)>>}

\* one of the four fetchers, called directly
InitFetch ==
    /\ InitFrame
    /\ \E k \in Kinds : kind = [t \in Callers |-> k]
    /\ cache = <<>>
    /\ last_ok = <<>>
    /\ etf_db = <<>>

Init == InitFrame /\ InitEtf

\* one caller using a fetcher directly
NextFetch ==
    \/ \E ky \in FetchKeys : FetchCall(1, ky)
    \/ \E o \in FuncOutcomes(kind[1], ctx[1]) : RetryAttempt(1, o)
    \/ RetryExhausted(1)
    \/ Return(1)
    \/ Tick

SpecFetch == InitFetch /\ [][NextFetch]_vars

\* get_etf_info called by one caller at a time
NextEtfSeq ==
    \/ \E c \in EtfCodes : EtfCall(1, c)
    \/ \E up \in BOOLEAN : EtfDbQuery(1, up)
    \/ \E o \in {"quote", "fail"} : EtfPriceRequest(1, o)
    \/ \E o \in FuncOutcomes(kind[1], ctx[1]) : RetryAttempt(1, o)
    \/ EtfStore(1)
    \/ Return(1)
    \/ LongTick

SpecEtfSeq == Init /\ [][NextEtfSeq]_vars

\* get_etf_info called by concurrent request handlers
Next ==
    \/ \E t \in Callers, c \in EtfCodes : EtfCall(t, c)
    \/ \E t \in Callers, up \in BOOLEAN : EtfDbQuery(t, up)
    \/ \E t \in Callers, o \in {"quote", "fail"} : EtfPriceRequest(t, o)
    \/ \E t \in Callers, o \in {"ok", "none"} : RetryAttempt(t, o)
    \/ \E t \in Callers : EtfStore(t)
    \/ \E t \in Callers : Return(t)
    \/ LongTick

Spec == Init /\ [][Next]_vars

\* a new StockAnalyzer
InitStock ==
    /\ InitFrame
    /\ kind = [t \in Callers |-> "stock"]
    /\ cache = <<>>
    /\ last_ok = <<>>
    /\ etf_db = <<>>

\* StockAnalyzer.get_stock_info called by one caller at a time
NextStock ==
    \/ \E c \in StockCodes : \E o \in QuoteOutcomes(c) : StockInfoCall(1, c, o)
    \/ Return(1)
    \/ StockTick

SpecStock == InitStock /\ [][NextStock]_vars

\* the three quote entry points called by one caller at a time
NextQuote ==
    \/ NextEtfSeq
    \/ \E c \in SvcCodes, n \in 0..2, f \in {"quote", "none"} \cup SvcRaises :
           SvcCall(1, c, n, f)
    \/ \E c \in QuoteCodes, o \in {"quote", "no_data"} :
           ModuleStockInfoCall(1, c, o)

SpecQuote == Init /\ [][NextQuote]_vars

\* new objects and an empty database
InitStores ==
    /\ kind = [t \in Callers |-> "etf"]
    /\ cache = <<>>
    /\ last_ok = <<>>
    /\ etf_db = <<>>

\* a payload arrives from the exchange
InitPayload ==
    /\ InitIdle
    /\ InitStores
    /\ NoHoldings
    /\ fn = "none"
    /\ input \in Payloads
    /\ output = <<>>

NextPayload == \E f \in QuoteFunctions : FormatQuote(f)

SpecPayload == InitPayload /\ [][NextPayload]_vars

\* holdings have been stored for some ETFs
InitAppOverlap ==
    /\ InitIdle
    /\ InitStores
    /\ NoCalc
    /\ holdings_db \in HoldingDbs

NextAppOverlap == \E a \in OverlapArgs \cup {<<>>} : AppAnalyzeOverlap(a)

SpecAppOverlap == InitAppOverlap /\ [][NextAppOverlap]_vars

\* a new ETFAnalyzer, the exchange's answers for the ETFs, and what is
\* stored for them
InitOverlap ==
    /\ InitIdle
    /\ InitStores
    /\ fn = "none"
    /\ input \in [OverlapEtfs -> NetAnswers]
    /\ output = <<>>
    /\ holdings_db \in FallbackDbs

NextOverlap ==
    \/ \E a \in AnalyzerArgs : AnalyzeOverlap(a)
    \/ LongTick

SpecOverlap == InitOverlap /\ [][NextOverlap]_vars

\* a list of closes is handed to _calculate_kd
InitKd ==
    /\ InitIdle
    /\ InitStores
    /\ NoHoldings
    /\ fn = "none"
    /\ input \in SeqsOf(CloseVals, 8, MaxKdLen)
    /\ output = <<>>

NextKd == CalculateKd

SpecKd == InitKd /\ [][NextKd]_vars

\* a list of closes and a period are handed to _calculate_rsi
InitRsi ==
    /\ InitIdle
    /\ InitStores
    /\ NoHoldings
    /\ fn = "none"
    /\ input \in [closes : SeqsOf(CloseVals, 1, MaxRsiLen), period : RsiPeriods]
    /\ output = <<>>

NextRsi == CalculateRsi

SpecRsi == InitRsi /\ [][NextRsi]_vars

\* the exchange holds a table of daily rows for the code asked about
InitTechnical ==
    /\ InitIdle
    /\ InitStores
    /\ NoHoldings
    /\ fn = "none"
    /\ input \in [kind : {"table"}, data : DayTables]
    /\ output = <<>>

NextTechnical ==
    \/ CalculateTechnicalIndicators
    \/ StockInfoTechnical

SpecTechnical == InitTechnical /\ [][NextTechnical]_vars

\* an indicator function is handed its input: the history frame, or the
\* code whose table the exchange holds
InitIndicators ==
    /\ InitIdle
    /\ InitStores
    /\ NoHoldings
    /\ fn = "none"
    /\ input \in [kind : {"frame"}, data : HistoryFrames]
                     \cup [kind : {"table"}, data : DayTables]
    /\ output = <<>>

NextIndicators ==
    \/ CalculateBollingerBands
    \/ CalculateTechnicalIndicators

SpecIndicators == InitIndicators /\ [][NextIndicators]_vars

\* a message whose intent was analysed arrives, and something may go wrong
\* in the collaborator its handler calls
InitCommand ==
    /\ InitIdle
    /\ InitStores
    /\ NoHoldings
    /\ fn = "none"
    /\ input \in [kind : {"command"}, command : Commands, params : ParamWords,
                  failure : Failures]
    /\ output = <<>>

NextCommand ==
    \/ ProcessCommand
    \/ HandleMessageAsync

SpecCommand == InitCommand /\ [][NextCommand]_vars

\* no alert is stored and no request is running
InitAlerts ==
    /\ InitIdle
    /\ InitStores
    /\ NoHoldings
    /\ NoCalc

NextAlerts ==
    \/ \E t \in Callers, user \in AlertUsers : AlertReceive(t, user)
    \/ \E t \in Callers, db_ok \in BOOLEAN : AlertHandle(t, db_ok)
    \/ \E t \in Callers : AlertReply(t)
    \/ \E t \in Callers : Return(t)
    \/ MonthTick

SpecAlerts == InitAlerts /\ [][NextAlerts]_vars

\* the broadcast job on every list of users and every course of the pushes
InitBroadcast ==
    /\ InitIdle
    /\ InitStores
    /\ NoHoldings
    /\ fn = "none"
    /\ input \in BroadcastInputs
    /\ output = <<>>

NextBroadcast == SendEtfOverlapAnalysis

SpecBroadcast == InitBroadcast /\ [][NextBroadcast]_vars

\* a retry loop on every course of its attempts
InitRetry ==
    /\ InitIdle
    /\ InitStores
    /\ NoHoldings
    /\ fn = "none"
    /\ input \in RetryInputs
    /\ output = <<>>

NextRetry ==
    \/ GetWithRetryRun
    \/ GetEtfInfoRun
    \/ MakeRequestRun

SpecRetry == InitRetry /\ [][NextRetry]_vars

\* one caller of a fetching operation; the program takes its own steps and a
\* deadline that is set does pass, but nothing makes the upstream answer
InitDeadline ==
    /\ InitFrame
    /\ \E k \in DeadlineKinds : kind = [t \in Callers |-> k]
    /\ cache = <<>>
    /\ last_ok = <<>>
    /\ etf_db = <<>>

NextDeadline ==
    \/ \E ky \in FetchKeys : FetchOpCall(1, ky)
    \/ SendRequest(1)
    \/ \E o \in {"ok", "transient"} : Respond(1, o)
    \/ RequestTimeout(1)
    \/ Return(1)

SpecDeadline ==
    /\ InitDeadline
    /\ [][NextDeadline]_vars
    /\ WF_vars(SendRequest(1))
    /\ WF_vars(RequestTimeout(1))

\* the three caching operations, with upstreams that answer or fail
InitCaching ==
    /\ InitFrame
    /\ InitStores

NextCaching ==
    \/ \E code \in FetchKeys, o \in {"ok", "transient"}, found \in BOOLEAN,
          db_ok \in BOOLEAN : GetDividendInfo(code, o, found, db_ok)
    \/ \E code \in FetchKeys, o \in {"ok", "transient"} : GetTechnicalAnalysis(code, o)
    \/ GetEtfRanking
    \/ CacheTick

SpecCaching == InitCaching /\ [][NextCaching]_vars

\* the shared Cache object under any sequence of its operations
InitUtilCache ==
    /\ InitFrame
    /\ InitStores

NextUtilCache ==
    \/ \E k \in CacheKeys : CacheGet(k)
    \/ \E k \in CacheKeys : CacheSet(k)
    \/ CacheClear
    \/ UtilTick

SpecUtilCache == InitUtilCache /\ [][NextUtilCache]_vars

\* reads and writes of the Cache object and requests to the Gemini client
NextExpiry ==
    \/ \E k \in CacheKeys : CacheGet(k)
    \/ \E k \in CacheKeys : CacheSet(k)
    \/ \E p \in Prompts, o \in {"answer", "rate_limited", "unrelated", "raise"} :
          GenerateResponse(p, o)
    \/ UtilTick

SpecExpiry == InitUtilCache /\ [][NextExpiry]_vars

\* the rows of a month, whose closes are handed to _calculate_kd
InitKdRows ==
    /\ InitIdle
    /\ InitStores
    /\ NoHoldings
    /\ fn = "none"
    /\ input \in [kind : {"bars"}, data : BarSeries]
    /\ output = <<>>

NextKdRows == CalculateKdOfRows

SpecKdRows == InitKdRows /\ [][NextKdRows]_vars

\* a new ETFAnalyzer, answers of the exchange that may repeat a stock, and
\* requests that may repeat an ETF
InitRepeats ==
    /\ InitIdle
    /\ InitStores
    /\ fn = "none"
    /\ input \in [OverlapEtfs -> RepeatAnswers]
    /\ output = <<>>
    /\ holdings_db \in FallbackDbs

NextRepeats ==
    \/ \E a \in RepeatArgs : AnalyzeOverlap(a)
    \/ LongTick

SpecRepeats == InitRepeats /\ [][NextRepeats]_vars

\* requests of two users to a new GeminiClient, seconds or minutes apart
InitGemini ==
    /\ InitFrame
    /\ InitStores

NextGemini ==
    \/ \E user \in GeminiUsers, prompt \in GeminiPrompts, model_ok \in BOOLEAN :
          GeminiGenerate(user, prompt, model_ok)
    \/ SecondTick
    \/ UtilTick

SpecGemini == InitGemini /\ [][NextGemini]_vars

\* Database() called again and again in one process, against a server that
\* answers, times out or fails
InitDatabase ==
    /\ InitFrame
    /\ InitStores

NextDatabase == \E outcomes \in ConnectRuns : DatabaseNew(outcomes)

SpecDatabase == InitDatabase /\ [][NextDatabase]_vars

----------------------------------------------------------------------------
(* The claims *)

Running(t) == pc[t] \notin {"idle", "done"}

Returned(t, c) == pc[t] = "done" /\ ctx[t] = c

\* C1: two concurrent get_etf_info calls for the same code never both go
\* upstream: while both are running, at most one of them has issued a request.
C1_SingleFetchPerKey ==
    \A t1, t2 \in Callers :
        (t1 # t2 /\ Running(t1) /\ Running(t2) /\ arg[t1] = arg[t2])
            => ~(obs[t1].net > 0 /\ obs[t2].net > 0)

\* C2: a get_etf_info call that found an expired entry and whose refresh
\* exhausted its retries returns the previously stored record, not an error.
C2_StaleFallback ==
    \A t \in Callers :
        (Returned(t, "get_etf_info") /\ obs[t].expired
            /\ issued[t] = max_retries("etf") /\ seen[t] # "ok")
            => result[t] = Result("ok", obs[t].had)

\* C3: a quote returned by StockService.get_stock_info was fetched no more
\* than TTL seconds before the call returns; a call that finds the stored
\* quote older than TTL makes an upstream request.
C3_BoundedStaleness ==
    \A t \in Callers :
        Returned(t, "StockService.get_stock_info") =>
            /\ result[t].status = "ok" => now - result[t].data.timestamp <= TTL
            /\ (obs[t].expired /\ obs[t].had # NoRecord) => obs[t].net > 0

\* C4: a get_etf_info call made within cache_timeout of a successful call for
\* the same code returns that call's record and touches neither the database
\* nor upstream.
C4_LiveCacheHit ==
    \A t \in Callers :
        (Returned(t, "get_etf_info") /\ obs[t].expect # NoRecord)
            => /\ result[t] = Result("ok", obs[t].expect)
               /\ obs[t].db = 0
               /\ obs[t].net = 0

\* C5: a StockAnalyzer.get_stock_info call made within cache_timeout of a
\* successful call for the same code returns that call's quote without an
\* upstream request, and no call that finds a cache entry for its code
\* returns an error without having asked upstream.
C5_StockCacheHit ==
    \A t \in Callers :
        Returned(t, "StockAnalyzer.get_stock_info") =>
            /\ obs[t].expect # NoRecord =>
                   result[t] = Result("ok", obs[t].expect) /\ obs[t].net = 0
            /\ (obs[t].had # NoRecord /\ obs[t].net = 0) => result[t].status = "ok"

\* C6: a get_etf_info call that found the code's cache entry expired and
\* returns a record has fetched it from upstream, and the record is younger
\* than cache_timeout.
C6_ExpiryForcesRefresh ==
    \A t \in Callers :
        (Returned(t, "get_etf_info") /\ obs[t].expired /\ result[t].status = "ok")
            => /\ obs[t].net > 0
               /\ now - result[t].data.timestamp < etf_cache_timeout

\* C7: a fetcher call whose request has failed permanently every time has
\* made exactly one attempt.
C7_PermanentNotRetried ==
    \A t \in Callers :
        (kind[t] \in {"etf", "twse"} /\ seen[t] = "permanent") => issued[t] = 1

\* C8: one fetcher call invokes the request at most max_retries times, and
\* never again after an invocation succeeded.
C8_RetryBound ==
    \A t \in Callers :
        /\ issued[t] <= max_retries(kind[t])
        /\ after_success[t] = 0

\* a call that failed max_retries - 1 times and succeeded on its last attempt
C8_Witness ==
    \E t \in Callers :
        /\ Returned(t, "fetch")
        /\ issued[t] = max_retries(kind[t])
        /\ result[t].status = "ok"

\* C9: any two consecutive invocations of the request function for one key
\* through _get_with_retry are at least request_interval apart.
C9_RequestSpacing ==
    \A x \in DOMAIN spaced : spaced[x]

\* C13: a StockService.get_stock_info call whose request is answered with no
\* data (empty or missing msgArray) returns None and raises nothing.
C13_NoDataReturnsNone ==
    \A t \in Callers :
        (Returned(t, "StockService.get_stock_info") /\ obs[t].upstream = "no_data")
            => result[t] = Result("none", NoRecord)

\* the entry points named by C10
QuoteEntryPoints ==
    {"stock_info.get_stock_info", "get_etf_info", "StockService.get_stock_info"}

\* C10: a quote entry point called with an empty or non-numeric symbol
\* returns an invalid-symbol result and has made no cache lookup, database
\* query or upstream request.
C10_FailFastValidation ==
    \A t \in Callers :
        (pc[t] = "done" /\ ctx[t] \in QuoteEntryPoints
            /\ ~isdigit(RemoveDots(strip(arg[t]))))
            => /\ result[t].status = "invalid"
               /\ ~obs[t].looked_up
               /\ obs[t].db = 0
               /\ obs[t].net = 0

\* C11: when the payload lacks the price 'z' or the name 'n', stock_info's
\* get_stock_info and StockService._format_stock_data return no quote.
C11_MissingFieldRejected ==
    (fn \in {"stock_info.get_stock_info", "StockService._format_stock_data"}
        /\ (input.z = Absent \/ input.n = Absent))
        => output.status # "ok"

\* C12: a quote made from a payload with price z and previous close y has
\* change z - y and change percent (z - y) / y * 100, or 0 when y is 0.
C12_ChangeAndPercent ==
    (fn \in QuoteFunctions /\ input.z.k = "num" /\ input.y.k = "num"
        /\ output.status = "ok")
        => /\ output.change = input.z.v - input.y.v
           /\ output.change_percent =
                  IF input.y.v = 0 THEN RInt(0)
                  ELSE Percent(input.z.v - input.y.v, input.y.v)

\* C14: the result of app.analyze_etf_overlap has, for every two ETFs it
\* found whose stored holdings intersect, one entry with the common stocks
\* and overlap_ratio = |intersection| / min(|A|, |B|), and no other entry.
C14_PairwiseOverlap ==
    fn = "app.analyze_etf_overlap" =>
        LET h == FoundHoldings(holdings_db, input)
        IN  (\E a, b \in DOMAIN h : a # b /\ h[a] \cap h[b] # {}) =>
                /\ output.status = "ok"
                /\ output.overlap_stocks =
                       {[etfs |-> {a, b},
                         common_stocks |-> h[a] \cap h[b],
                         overlap_ratio |-> Frac(Cardinality(h[a] \cap h[b]),
                                                Min(Cardinality(h[a]), Cardinality(h[b])))] :
                           <<a, b>> \in {pr \in (DOMAIN h) \X (DOMAIN h) :
                               pr[1] # pr[2] /\ h[pr[1]] \cap h[pr[2]] # {}}}

\* the same ETFs in another order
Reordered(a, b) == Len(a) = Len(b) /\ Range(a) = Range(b)

InRange0To100(x) == RLe(RInt(0), x) /\ RLe(x, RInt(100))

\* C16: for a series of at least 9 closes, every RSV, K and D that
\* _calculate_kd computes, the returned K and D included, lies in [0, 100].
C16_KdInRange ==
    (fn = "_calculate_kd" /\ Len(input) >= 9) =>
        /\ output.status = "ok"
        /\ \A i \in DOMAIN output.steps :
               /\ InRange0To100(output.steps[i].rsv)
               /\ InRange0To100(output.steps[i].k)
               /\ InRange0To100(output.steps[i].d)

\* a series whose last close is the highest of its window: the RSV is 100
\* and K has moved above 50
C16_Witness ==
    /\ fn = "_calculate_kd"
    /\ Len(input) > 9
    /\ output.steps[Len(output.steps)].rsv = RInt(100)
    /\ ~RLe(output.steps[Len(output.steps)].k, RInt(50))

\* the trailing p differences of a list of closes
TrailingDiffs(closes, p) ==
    [i \in 1..p |-> closes[Len(closes) - p + i] - closes[Len(closes) - p + i - 1]]

\* the sum of the rises and the sum of the falls among differences
Rises(diffs) == Sum([i \in DOMAIN diffs |-> IF diffs[i] > 0 THEN diffs[i] ELSE 0])
Falls(diffs) == Sum([i \in DOMAIN diffs |-> IF diffs[i] < 0 THEN -diffs[i] ELSE 0])

\* 100 - 100 / (1 + avgGain / avgLoss) over differences with a fall
RsiFormula(diffs) ==
    LET p == Len(diffs)
    IN  RSub(RInt(100),
             RDiv(RInt(100), RAdd(RInt(1), RDiv(Frac(Rises(diffs), p), Frac(Falls(diffs), p)))))

\* C17 as stated: for at least period + 1 closes, _calculate_rsi returns 100
\* when no trailing difference is negative and one is positive, and
\* otherwise 100 - 100 / (1 + avgGain / avgLoss); the result is in [0, 100].
C17_RsiAsStated ==
    (fn = "_calculate_rsi" /\ Len(input.closes) >= input.period + 1) =>
        LET diffs == TrailingDiffs(input.closes, input.period)
        IN  /\ output.status = "ok"
            /\ InRange0To100(output.rsi)
            /\ IF /\ \A i \in DOMAIN diffs : diffs[i] >= 0
                  /\ \E i \in DOMAIN diffs : diffs[i] > 0
               THEN output.rsi = RInt(100)
               ELSE Falls(diffs) # 0 /\ output.rsi = RsiFormula(diffs)

\* C17, amended: for at least period + 1 closes, _calculate_rsi returns 100
\* when no trailing difference is negative (a series without any change
\* included), and otherwise 100 - 100 / (1 + avgGain / avgLoss) over exactly
\* the trailing period differences; the result is in [0, 100].
C17_Rsi ==
    (fn = "_calculate_rsi" /\ Len(input.closes) >= input.period + 1) =>
        LET diffs == TrailingDiffs(input.closes, input.period)
        IN  /\ output.status = "ok"
            /\ InRange0To100(output.rsi)
            /\ IF \A i \in DOMAIN diffs : diffs[i] >= 0
               THEN output.rsi = RInt(100)
               ELSE output.rsi = RsiFormula(diffs)

\* a series longer than period + 1 whose trailing differences rise and fall,
\* and differ from the earlier ones
C17_Witness ==
    /\ fn = "_calculate_rsi"
    /\ Len(input.closes) > input.period + 1
    /\ LET diffs == TrailingDiffs(input.closes, input.period)
       IN  /\ Rises(diffs) > 0
           /\ Falls(diffs) > 0
           /\ input.closes[2] - input.closes[1] < 0
    /\ output.status = "ok"
    /\ output.rsi # RInt(100)


\* the closes of the table asked about, and the mean of the last w of them
TableCloses == ClosesOf(input.data)
MeanOfLast(closes, w) == Frac(Sum(SubSeq(closes, Len(closes) - w + 1, Len(closes))), w)
MaKey(w) == IF w = 5 THEN "ma5" ELSE IF w = 10 THEN "ma10" ELSE "ma20"

\* C18: a moving average over w closes (w = 5, 10, 20) of fewer than w
\* closes is reported as absent, never as 0, and of w closes or more it is
\* the mean of the last w, both in what calculate_technical_indicators
\* returns and in the 'technical' entries of stock_info.get_stock_info
C18_ShortAverageAbsent ==
    /\ (fn = "calculate_technical_indicators" /\ output.value.status = "ok") =>
           \A w \in {5, 10, 20} :
               output.value[MaKey(w)] =
                   IF Len(TableCloses) < w THEN PyNone
                   ELSE PyFloat(MeanOfLast(TableCloses, w))
    /\ (fn = "get_stock_info" /\ ~output.is_etf) =>
           \A w \in {5, 10, 20} :
               IF Len(TableCloses) < w
               THEN output.technical[MaKey(w)] \notin {PyList(<<0>>), PyFloat(RInt(0))}
               ELSE output.technical[MaKey(w)] \in
                        {PyFloat(MeanOfLast(TableCloses, w)),
                         PyList(<<MeanOfLast(TableCloses, w)>>)}

\* C19: computing an indicator leaves its input exactly as it was (no
\* added or changed columns or values) and performs no network request
C19_PureComputation ==
    [][fn' # fn => (input' = input /\ output'.requests = 0)]_vars

\* a text that is made by the program and holds no text of an exception
NoRawText(v) == v.type = "str" /\ v.text \in {"reason", "answer"}

AlertsInMonth(user, t) ==
    Cardinality({i \in DOMAIN price_alerts :
                    /\ price_alerts[i].user_id = user
                    /\ MonthStart(price_alerts[i].created_at) = MonthStart(t)})

PushesTo(i) ==
    {n \in DOMAIN output.pushes : output.pushes[n].user_id = input.users[i]}

\* C22: each time send_etf_overlap_analysis runs and overlapping holdings
\* exist, every registered user is pushed the message, with at most
\* max_retries attempts per user that stop at the first success, whatever
\* happened to the users before
C22_EveryUserPushed ==
    (fn = "send_etf_overlap_analysis" /\ input.overlap)
    => \A i \in DOMAIN input.users :
          /\ Cardinality(PushesTo(i)) = Min(input.fails[i] + 1, push_max_retries)
          /\ \A n \in PushesTo(i) :
                output.pushes[n].delivered => \A m \in PushesTo(i) : m <= n

\* the upstream was unavailable at every attempt; the input was refused at
\* every attempt
Unavailable(x) == \A i \in DOMAIN x.outcomes : x.outcomes[i] \in {"transient", "rate_limited"}
InvalidInput(x) == \A i \in DOMAIN x.outcomes : x.outcomes[i] \in {"none", "empty", "permanent"}

\* C23: once the retry budget is used up, what ETFAnalyzer._get_with_retry,
\* get_etf_info and TWSEAPI._make_request hand back lets the caller tell
\* "upstream unavailable" apart from "invalid input": no call that failed
\* because the upstream was unavailable hands back what a call with an
\* invalid input hands back
C23_FailureKindsDistinct ==
    (fn # "none" /\ input.kind = "retry" /\ Unavailable(input))
    => \A y \in RetryInputs :
          (y.via = input.via /\ InvalidInput(y)) => RunOf(y) # output

\* C24: every upstream request carries a deadline, an upstream that never
\* answers costs the attempt as a transient failure, and so each fetching
\* operation (TWSEAPI._make_request, StockAnalyzer.get_stock_info,
\* DividendAnalyzer.get_dividend_info) that is waiting for the upstream
\* eventually returns
C24_EventuallyReturns == (pc[1] = "waiting") ~> (pc[1] = "done")

\* what a fetch whose retries were used up leaves behind
FailedFetch == {"{}", "{'_id'}"}

\* C25: a cache entry is created or replaced only by a successful fetch: after
\* a fetch that failed (retries used up, empty result) no entry is stored, so
\* no cache holds the result of a failed fetch
C25_NoFailedFetchCached ==
    /\ \A k \in DOMAIN dividend_cache : dividend_cache[k].data \notin FailedFetch
    /\ \A k \in DOMAIN stock_cache : stock_cache[k].data \notin FailedFetch
    /\ \A k \in DOMAIN cache : cache[k].data \notin FailedFetch

\* C26: a cache entry, once stored, is removed only by capacity eviction:
\* neither reading an expired entry (Cache.get) nor cleaning up
\* (GeminiClient._clean_cache) deletes an entry merely because it is past
\* its TTL
C26_OnlyCapacityEvicts ==
    [][/\ fn' = "Cache.get" => KeysOf(util_cache) \subseteq KeysOf(util_cache')
       /\ (fn' = "generate_response" /\ Len(gemini_cache) <= max_cache_size)
             => KeysOf(gemini_cache) \subseteq KeysOf(gemini_cache')]_vars

\* C30: after any sequence of Cache.set, Cache.get and Cache.clear the store
\* holds at most max_size entries, and whenever Cache.set evicts, the entry
\* it removes is one with the oldest stored timestamp
C30_BoundedOldestFirst ==
    /\ [](Len(util_cache) <= max_size)
    /\ [][fn' = "Cache.set"
            => \A i \in DOMAIN util_cache :
                  util_cache[i].key \notin KeysOf(util_cache')
                  => \A j \in DOMAIN util_cache :
                        util_cache[i].timestamp <= util_cache[j].timestamp]_vars

\* a full cache was given a new key: the entry stored first is gone, a
\* younger one is still there
C30_Witness ==
    /\ fn = "Cache.set"
    /\ output.evicted \in CacheKeys \ {input}
    /\ output.evicted \notin KeysOf(util_cache)
    /\ Len(util_cache) = max_size
    /\ \E i \in DOMAIN util_cache : util_cache[i].key # input /\ util_cache[i].timestamp > 0

\* the keys of the two classes that keep last_request_time
Recorded == {x \in DOMAIN last_issue : x[1] \in {"etf", "dividend"}}

\* C27: _get_with_retry records the time of every attempt for its key, also
\* of one that raised or returned None, so last_request_time[key] is never
\* older than the most recent invocation of the request function
C27_EveryAttemptRecorded ==
    \A x \in Recorded :
        /\ x \in DOMAIN last_request_time
        /\ last_request_time[x] >= last_issue[x]

\* the back-off of the attempt a rate-limited call has just made, and whether
\* another attempt follows in the loop
JustLimited(t) ==
    /\ pc[t] = "retry"
    /\ kind[t] \in {"etf", "dividend"}
    /\ obs[t].upstream = "rate_limited"
SinceAttempt(t) == now - last_issue[<<kind[t], key[t]>>]

\* C28: when the k-th attempt (k = 1, 2, ...) of _get_with_retry fails with
\* "Too Many Requests", the next attempt is made k * retry_delay after it:
\* the loop has slept that long and the request interval adds nothing
C28_LinearBackoff ==
    \A t \in Callers :
        JustLimited(t)
        => /\ SinceAttempt(t) = issued[t] * retry_delay(kind[t])
           /\ PreWait(kind[t], key[t], last_request_time, now) = 0

\* the second attempt was rate limited, ten seconds have passed and a third
\* attempt follows, for a key whose last success is on record
C28_Witness ==
    \E t \in Callers :
        /\ JustLimited(t)
        /\ issued[t] = 2
        /\ ~RangeExhausted(kind[t], attempt[t])
        /\ SinceAttempt(t) = 2 * retry_delay(kind[t])
        /\ <<kind[t], key[t]>> \in DOMAIN last_request_time

\* the base delay of each fetcher's back-off
BaseDelay(k) == IF k = "twse" THEN 1 ELSE retry_delay(k)

\* C29: after a transient error the fetcher (TWSEAPI._make_request,
\* ETFAnalyzer._get_with_retry, StockAnalyzer._get_with_retry) waits
\* 2^attempt * baseDelay before the next attempt, counting the attempts from
\* 0 or from 1, and does not wait after the final attempt
C29_ExponentialBackoff ==
    \A t \in Callers :
        (pc[t] = "retry" /\ kind[t] \in {"twse", "etf", "stock"}
           /\ obs[t].upstream = "transient")
        => IF RangeExhausted(kind[t], attempt[t])
           THEN SinceAttempt(t) = 0
           ELSE SinceAttempt(t) \in {Pow2(attempt[t] - 1) * BaseDelay(kind[t]),
                                     Pow2(attempt[t]) * BaseDelay(kind[t])}

\* the least and the greatest of a field over days i-8..i
LeastOf(data, field, i) ==
    CHOOSE v \in {data[j][field] : j \in (i - 8)..i} :
        \A j \in (i - 8)..i : v <= data[j][field]
GreatestOf(data, field, i) ==
    CHOOSE v \in {data[j][field] : j \in (i - 8)..i} :
        \A j \in (i - 8)..i : v >= data[j][field]

\* (close - lo) / (hi - lo) * 100, and 50 when the range is zero
RsvFrom(close, lo, hi) ==
    IF hi = lo THEN RInt(50) ELSE Frac((close - lo) * 100, hi - lo)

\* (2/3) x + (1/3) y
TwoThirdsPlusThird(x, y) == RAdd(RMul(Frac(2, 3), x), RMul(Frac(1, 3), y))

\* the recursion over the RSVs of days 9.. of the rows, the range of each
\* window taken from the two given fields: K and D start at 50, and the
\* step of day i follows the step of day i-1
KdRecursion(lowField, highField) ==
    /\ output.status = "ok"
    /\ Len(output.steps) = Len(input.data) - 7
    /\ output.steps[1].k = RInt(50)
    /\ output.steps[1].d = RInt(50)
    /\ \A i \in 9..Len(input.data) :
          LET step == output.steps[i - 7]
              prev == output.steps[i - 8]
          IN  /\ step.rsv = RsvFrom(input.data[i].close,
                                    LeastOf(input.data, lowField, i),
                                    GreatestOf(input.data, highField, i))
              /\ step.k = TwoThirdsPlusThird(prev.k, step.rsv)
              /\ step.d = TwoThirdsPlusThird(prev.d, step.k)

FlatCloses == \A i \in DOMAIN input.data : input.data[i].close = input.data[1].close
LastStep == output.steps[Len(output.steps)]

HoldersOf(etf_codes, stock) ==
    {c \in Range(etf_codes) : stock \in Range(HoldingsOf(holdings_db, input, c))}

\* C32: every stock code in the overlap_stocks returned by
\* ETFAnalyzer.analyze_etf_overlap is a holding of at least two distinct ETFs
\* among the requested etf_codes, also when a holdings list repeats a stock
\* or etf_codes repeats an ETF, and every stock held by two or more distinct
\* requested ETFs is reported
C32_TwoDistinctHolders ==
    fn = "ETFAnalyzer.analyze_etf_overlap" =>
        \A a \in DOMAIN output :
            DOMAIN output[a].overlap_stocks =
                {st \in UNION {Range(HoldingsOf(holdings_db, input, c)) : c \in Range(a)} :
                    Cardinality(HoldersOf(a, st)) >= 2}

\* C33: whenever calculate_technical_indicators returns a numeric value for
\* ma5, ma10, ma20, rsi, K or D of a stock, the 'technical' section of
\* stock_info.get_stock_info carries that same value, not the default [0]
C33_IndicatorsReachCaller ==
    (fn = "get_stock_info" /\ ~output.is_etf /\ output.technical_data.status = "ok")
    => /\ \A name \in {"ma5", "ma10", "ma20"} :
              output.technical_data[name].type = "float"
              => output.technical[name] = output.technical_data[name]
       /\ \A name \in {"k", "d", "rsi"} :
              output.technical_data[name] = "float"
              => output.technical[name] = ComputedFloat

\* C34: Cache.set on a key that is already present only replaces that key's
\* value and timestamp: it removes no other entry and leaves the set of
\* stored keys unchanged, also when the store is at max_size
C34_OverwriteKeepsKeys ==
    [][(fn' = "Cache.set" /\ input' \in KeysOf(util_cache))
          => KeysOf(util_cache') = KeysOf(util_cache)]_vars

\* C35: after every return of GeminiClient.generate_response the response
\* cache holds at most max_cache_size entries
C35_ResponseCacheBounded ==
    fn = "generate_response" => Len(gemini_cache) <= max_cache_size

\* the step is a call of generate_response; one the limiter turned away;
\* one whose prompt went to the model
GeminiRequestStep == calls' = calls + 1 /\ fn' = "generate_response"
RejectedStep == GeminiRequestStep /\ output'.returned = "rejected"
ForwardedStep == GeminiRequestStep /\ output'.forwarded

\* two prompts of one user that reach the model are rate_limit seconds apart
ForwardsApart ==
    (ForwardedStep /\ Slot(input'.user) \in DOMAIN last_issue)
        => now - last_issue[Slot(input'.user)] >= rate_limit

\* a request the limiter turned away reaches neither the model nor the
\* user's last_request_time
RejectedNotForwarded ==
    RejectedStep => /\ ~output'.forwarded
                    /\ last_issue' = last_issue
                    /\ last_request_time' = last_request_time

\* the entries of a cache
EntriesOf(entries) == {entries[i] : i \in 1..Len(entries)}

\* a request the limiter turned away adds nothing to the cache, and what it
\* removes was expired or in excess of max_cache_size
RejectedOnlyCleans ==
    RejectedStep =>
        /\ EntriesOf(gemini_cache') \subseteq EntriesOf(gemini_cache)
        /\ \A e \in EntriesOf(gemini_cache) \ EntriesOf(gemini_cache') :
              \/ now - e.timestamp > gemini_cache_timeout
              \/ Len(gemini_cache) > max_cache_size

\* C36: per user, two prompts that generate_response forwards to the model
\* are at least rate_limit seconds apart; a request rejected by the limiter
\* is not forwarded, does not update the user's last_request_time and leaves
\* the cache unchanged; a user whose last forwarded request is rate_limit
\* seconds old is not rejected
C36_LimiterAsStated ==
    [][/\ ForwardsApart
       /\ RejectedNotForwarded
       /\ RejectedStep => gemini_cache' = gemini_cache
       /\ (RejectedStep /\ Slot(input'.user) \in DOMAIN last_issue)
             => now - last_issue[Slot(input'.user)] < rate_limit]_vars

\* C36, amended: forwarded prompts of a user are rate_limit seconds apart; a
\* rejected request is not forwarded, does not update last_request_time, adds
\* nothing to the cache and removes from it only what the clean-up removes;
\* a request is rejected only within rate_limit seconds of the user's last
\* request that got past the limiter, forwarded or not
C36_LimiterPerUser ==
    [][/\ ForwardsApart
       /\ RejectedNotForwarded
       /\ RejectedOnlyCleans
       /\ RejectedStep
             => /\ Slot(input'.user) \in DOMAIN last_request_time
                /\ now - last_request_time[Slot(input'.user)] < rate_limit]_vars

\* a user is turned away a full rate_limit after their last forwarded prompt,
\* because an off-topic request took the slot in between
C36_Witness ==
    /\ fn = "generate_response"
    /\ output.returned = "rejected"
    /\ Slot(input.user) \in DOMAIN last_issue
    /\ last_request_time[Slot(input.user)] = now
    /\ now - last_issue[Slot(input.user)] >= rate_limit

\* the step is a call of Database()
DatabaseStep == calls' = calls + 1 /\ fn' = "Database"

\* C37: Database() never hands out an instance whose initialization did not
\* complete: after _initialize raised, a later Database() call runs the
\* initialization again; once initialization has succeeded every call
\* returns the same instance and does not initialize it again
C37_OnlyInitializedInstances ==
    [][DatabaseStep =>
          /\ output'.returned = "instance"
                => instance'.initialized /\ instance'.client # "unset" /\ instance'.db
          /\ (instance.created /\ ~instance.initialized) => output'.initialize_ran
          /\ instance.initialized
                => /\ output' = [returned |-> "instance", initialize_ran |-> FALSE]
                   /\ instance' = instance]_vars

============================================================================
